---------------------------- MODULE Spec2Model ----------------------------
(***************************************************************************)
(* A model of archipelago_rs: the connection life cycle                    *)
(* (src/src/connection.rs), the framed codec (src/src/connection/          *)
(* socket.rs) and the session held by the client (src/src/client.rs).      *)
(*                                                                         *)
(* Conventions.  An Option<T> is a sequence of length 0 (None) or          *)
(* 1 (Some).  A HashMap is a function; a Vec or VecDeque is a sequence.    *)
(* Client::update is a loop that may not return, so one iteration of the   *)
(* loop is one step of the model (pc = "updating" between iterations);     *)
(* every other operation is one step.                                      *)
(***************************************************************************)
EXTENDS Integers, Sequences, FiniteSets, TLC

VARIABLES
    state,       \* ConnectionState tag: Connecting, Connected, Disconnected
    cstate,      \* ConnectingState tag while Connecting
    hs,          \* room_info / data_package carried by ConnectingState
    err,         \* Option<Error>: the error held by Disconnected
    transition,  \* Option<ConnectionStateTransition> of the last update()
    client,      \* the Client session fields while Connected
    messages,    \* Socket.messages: decoded messages not yet returned
    wire,        \* results the transport will give to the next reads
    failed,      \* the transport has failed for good: reads keep erring
    outbox,      \* client messages handed to the transport, in order
    pc,          \* idle, updating (inside Client::update), panicked
    events,      \* the Vec<Event> of the current / last update() call
    promises,    \* the oneshot channels handed out by scout_locations / get
    last,        \* the operation performed by the last step, with inputs
    hist,        \* bookkeeping: budgets of the run and the server's script
    files,       \* the filesystem under the cache's data_package_path()
    cache,       \* the calls of Cache in progress: one store, one load
    transport    \* the WebSocket transport while it connects

\* the connection and its session
session == <<state, cstate, hs, err, transition, client, messages, wire,
             failed, outbox, pc, events, promises, last, hist>>
\* the datapackage cache
cachevars == <<files, cache>>

vars == <<state, cstate, hs, err, transition, client, messages, wire,
          failed, outbox, pc, events, promises, last, hist, files, cache,
          transport>>

----------------------------------------------------------------------------
(* Bounds of the model. *)

\* frames the server sends during the handshake
MaxHandshakeFrames == 3
\* frames the server sends once the session is established
MaxFrames == 2
\* frames that may wait unread in the transport
MaxWire == 2
\* request calls (mark_checked, scout_locations, get, update_hint) per run
MaxCalls == 2
\* events collected by one update() call before the model stops the loop
MaxEvents == 6
\* calls of Cache::store_data_packages per run
MaxStores == 2
\* calls of Cache::load_data_packages per run
MaxLoads == 2
\* calls of update_connection in a run
MaxUpdates == 2

----------------------------------------------------------------------------
(* Options and small helpers. *)

None == <<>>
Some(x) == <<x>>
IsSome(o) == Len(o) = 1
Unwrap(o) == o[1]

Last(s) == s[Len(s)]
Range(s) == {s[i] : i \in DOMAIN s}

\* HashMap::insert: the map with k bound to v
MapInsert(m, k, v) == [x \in (DOMAIN m) \cup {k} |-> IF x = k THEN v ELSE m[x]]
\* HashMap::insert's return value: the previous binding, if any
MapGet(m, k) == IF k \in DOMAIN m THEN Some(m[k]) ELSE None

----------------------------------------------------------------------------
(* Errors (src/src/error.rs).  Every error is a record tagged by the       *)
(* variant of Error; ProtocolError and ArgumentError carry their own kind. *)

\* Error::WebSocket: the transport failed (closed, reset, invalid UTF-8, ...)
ErrWebSocket == [type |-> "WebSocket"]
ErrElsewhere == [type |-> "Elsewhere"]
ErrNoProtocol == [type |-> "NoProtocolError"]
ErrInvalidPacket(text) == [type |-> "InvalidPacket", text |-> text]
ErrConnectionRefused(errors) == [type |-> "ConnectionRefused", errors |-> errors]

ErrDeserialize == [type |-> "ProtocolError", kind |-> "Deserialize"]
ErrBinaryMessage == [type |-> "ProtocolError", kind |-> "BinaryMessage"]
ErrUnexpectedResponse(actual, expected) ==
    [type |-> "ProtocolError", kind |-> "UnexpectedResponse",
     actual |-> actual, expected |-> expected]
ErrEmptyPlayers == [type |-> "ProtocolError", kind |-> "EmptyPlayers"]
ErrMissingPlayer(team, slot) ==
    [type |-> "ProtocolError", kind |-> "MissingPlayer", team |-> team, slot |-> slot]
ErrMissingSlotInfo(slot) ==
    [type |-> "ProtocolError", kind |-> "MissingSlotInfo", slot |-> slot]
ErrMissingGameData(game) ==
    [type |-> "ProtocolError", kind |-> "MissingGameData", game |-> game]
ErrMissingItem(id, game) ==
    [type |-> "ProtocolError", kind |-> "MissingItem", id |-> id, game |-> game]
ErrMissingLocation(id, game) ==
    [type |-> "ProtocolError", kind |-> "MissingLocation", id |-> id, game |-> game]
ErrResponseWithoutRequest(what) ==
    [type |-> "ProtocolError", kind |-> "ResponseWithoutRequest", what |-> what]

ErrInvalidLocation(location, game) ==
    [type |-> "ArgumentError", kind |-> "InvalidLocation",
     location |-> location, game |-> game]
ErrInvalidSlot(slot) == [type |-> "ArgumentError", kind |-> "InvalidSlot", slot |-> slot]

\* The mutation of is_fatal that spares no error.
IsFatalAlways(e) == TRUE

\* Error::is_fatal
IsFatal(e) == e.type \notin {"ProtocolError", "InvalidPacket"}

\* ConnectionError::from(String): the closed vocabulary, else Unknown
ConnectionErrorFrom(value) ==
    IF value \in {"InvalidSlot", "InvalidGame", "InvalidVersion",
                  "InvalidPassword", "InvalidItemsHandling"}
    THEN [kind |-> value]
    ELSE [kind |-> "Unknown", value |-> value]

\* Result values: Ok(v) and Err(e)
Ok(v) == [ok |-> TRUE, val |-> Some(v), err |-> None]
Err(e) == [ok |-> FALSE, val |-> None, err |-> Some(e)]

----------------------------------------------------------------------------
(* The data package: the games of the multiworld and their ids             *)
(* (src/src/data/game.rs, src/src/data/location.rs).                       *)

\* the game name passed to Connection::new
ThisGame == "G"
ArchipelagoName == "Archipelago"

\* GameData.location_name_to_id of each game a data package can carry; the
\* Archipelago game holds the well-known cheat console and server locations
GameLocations(g) ==
    CASE g = "G" -> {1, 2, 3}
      [] g = "H" -> {4}
      [] g = ArchipelagoName -> {-1, -2}
      [] OTHER -> {}
\* GameData.item_name_to_id
GameItems(g) ==
    CASE g = "G" -> {10}
      [] g = "H" -> {11}
      [] OTHER -> {}

\* Location::well_known
WellKnown(id) == id \in {-1, -2}

\* Game::has_location
HasLocation(g, id) == id \in GameLocations(g)
\* Game::location_or_err / Game::verify_location
LocationOrErr(g, id) ==
    IF HasLocation(g, id) THEN Ok(id) ELSE Err(ErrMissingLocation(id, g))
\* Game::item_or_err
ItemOrErr(g, id) ==
    IF id \in GameItems(g) THEN Ok(id) ELSE Err(ErrMissingItem(id, g))

\* Player::hydrate
Player(network, game) ==
    [team |-> network.team, slot |-> network.slot, alias |-> network.alias,
     name |-> network.name, game |-> game]

----------------------------------------------------------------------------
(* The framed codec (src/src/connection/socket.rs).  The transport hands   *)
(* the codec one read result at a time: a Text frame holding a JSON array  *)
(* (its elements are messages, or Bad for an element that does not         *)
(* decode), a Binary frame, a control frame (Other), or a frame on which   *)
(* the read itself fails (Invalid).  Once the transport has failed and     *)
(* what it had buffered is read, every read fails.                         *)

TextFrame(elems) == [kind |-> "Text", elems |-> elems]
BinaryFrame == [kind |-> "Binary", elems |-> <<>>]
OtherFrame == [kind |-> "Other", elems |-> <<>>]
InvalidFrame == [kind |-> "Invalid", elems |-> <<>>]
BadElement == [cmd |-> "Bad"]

\* The serde_json::Value a Bounced carries: the object of a death link
\* ({time, cause?, source}), any other value, null.
DeathLinkValue(source) == [json |-> "DeathLink", source |-> source]
OtherValue == [json |-> "Number", source |-> ""]
NullValue == [json |-> "Null", source |-> ""]
\* InternalBounced: a Bounced as the array holds it, tags and data optional
InternalBounced(tags, data) == [cmd |-> "Bounced", tags |-> tags, data |-> data]
\* Bounced, its data a BounceData
Bounced(tags, data) == [cmd |-> "Bounced", tags |-> tags, data |-> data]
DeathLinkData(source) == [kind |-> "DeathLink", source |-> source, value |-> None]
GenericData(value) == [kind |-> "Generic", source |-> "", value |-> value]

\* serde_json::from_value::<DeathLink>
FromValue(value) ==
    IF value.json = "DeathLink" THEN Ok(DeathLinkData(value.source))
    ELSE Err(ErrDeserialize)
\* Option<Value>::unwrap_or_default
UnwrapOrDefault(data) == IF data = None THEN NullValue ELSE Unwrap(data)

\* The mutation of the decoder that takes any tagged Bounced for a death
\* link.
HasAnyTag(tags) == tags # <<>>

\* Bounced::deserialize's test: tags are there and hold DEATH_LINK_TAG
HasDeathLinkTag(tags) == tags # None /\ "DeathLink" \in Unwrap(tags)

\* Bounced::deserialize
BouncedDeserialize(internal) ==
    IF HasDeathLinkTag(internal.tags)
    THEN LET data == FromValue(UnwrapOrDefault(internal.data)) IN
         IF data.ok THEN Ok(Bounced(internal.tags, Unwrap(data.val)))
         ELSE Err(Unwrap(data.err))
    ELSE Ok(Bounced(internal.tags, GenericData(internal.data)))

\* ServerMessage::deserialize of one element of the array
DecodeMessage(elem) ==
    IF elem = BadElement THEN Err(ErrDeserialize)
    ELSE IF elem.cmd = "Bounced" THEN BouncedDeserialize(elem)
    ELSE Ok(elem)

\* The mutation of the decoder that fills the buffer back to front.
DecodeReversed(elems) ==
    IF \E i \in DOMAIN elems : ~DecodeMessage(elems[i]).ok
    THEN [ok |-> FALSE, val |-> <<>>,
          err |-> <<[type |-> "ProtocolError", kind |-> "Deserialize"]>>]
    ELSE [ok |-> TRUE, err |-> <<>>,
          val |-> <<[i \in DOMAIN elems |->
                        DecodeMessage(elems[Len(elems) + 1 - i]).val[1]]>>]

\* serde_json::from_str::<VecDeque<ServerMessage>>: one undecodable element
\* fails the whole array
Decode(elems) ==
    IF \E i \in DOMAIN elems : ~DecodeMessage(elems[i]).ok
    THEN Err(ErrDeserialize)
    ELSE Ok([i \in DOMAIN elems |-> Unwrap(DecodeMessage(elems[i]).val)])

RecvResult(res, msgs, w) == [res |-> res, messages |-> msgs, wire |-> w]

\* Socket::try_recv: Ok(Some(message)), Ok(None) or Err, with the buffer
\* and the transport it leaves behind
RECURSIVE TryRecv(_, _, _)
TryRecv(msgs, w, f) ==
    IF msgs # <<>>
    THEN RecvResult(Ok(Some(Head(msgs))), Tail(msgs), w)
    ELSE IF w = <<>>
    THEN IF f THEN RecvResult(Err(ErrWebSocket), msgs, w)
              ELSE RecvResult(Ok(None), msgs, w)
    ELSE LET frame == Head(w) IN
         CASE frame.kind = "Text" ->
                 LET decoded == Decode(frame.elems) IN
                 IF decoded.ok
                 THEN TryRecv(Unwrap(decoded.val), Tail(w), f)
                 ELSE RecvResult(Err(Unwrap(decoded.err)), msgs, Tail(w))
           [] frame.kind = "Binary" ->
                 RecvResult(Err(ErrBinaryMessage), msgs, Tail(w))
           [] frame.kind = "Invalid" ->
                 RecvResult(Err(ErrWebSocket), msgs, Tail(w))
           [] OTHER -> TryRecv(msgs, Tail(w), f)

\* The mutation of the write that reports success and writes nothing.
SendNothing(out, f, msg) == [res |-> Ok(<<>>), outbox |-> out]

\* Socket::send: the message is written unless the transport has failed
Send(out, f, msg) ==
    IF f THEN [res |-> Err(ErrWebSocket), outbox |-> out]
         ELSE [res |-> Ok(<<>>), outbox |-> Append(out, msg)]

----------------------------------------------------------------------------
(* Server messages (src/src/protocol.rs) and the inputs of the model.      *)

Permissions(release, collect, remaining) ==
    [release |-> release, collect |-> collect, remaining |-> remaining]
NetworkPlayer(team, slot, alias, name) ==
    [team |-> team, slot |-> slot, alias |-> alias, name |-> name]
NetworkSlot(name, game, type, members) ==
    [name |-> name, game |-> game, type |-> type, group_members |-> members]
NetworkItem(item, location, player) ==
    [item |-> item, location |-> location, player |-> player]

RoomInfo ==
    [cmd |-> "RoomInfo", tags |-> {"AP"},
     permissions |-> Permissions("Disabled", "Disabled", "Disabled"),
     hint_cost |-> 50, location_check_points |-> 2]
DataPackage(games) == [cmd |-> "DataPackage", games |-> games]
ConnectionRefused(errors) == [cmd |-> "ConnectionRefused", errors |-> errors]
Connected(team, slot, players, missing, checked, slot_info, hint_points) ==
    [cmd |-> "Connected", team |-> team, slot |-> slot, players |-> players,
     missing_locations |-> missing, checked_locations |-> checked,
     slot_info |-> slot_info, hint_points |-> hint_points]

\* three players of team 0: this player in G, a teammate in H and a
\* teammate whose game X no data package carries
ThreePlayers ==
    <<NetworkPlayer(0, 1, "a1", "n1"), NetworkPlayer(0, 2, "a2", "n2"),
      NetworkPlayer(0, 3, "a3", "n3")>>
ThreeSlots ==
    (1 :> NetworkSlot("n1", "G", "Player", <<>>)) @@
    (2 :> NetworkSlot("n2", "H", "Player", <<>>)) @@
    (3 :> NetworkSlot("n3", "X", "Player", <<>>))

\* The Connected message of a healthy server: the slot holds locations 1
\* and 2 of the three locations G defines.
ConnectedGood == Connected(0, 1, ThreePlayers, <<1, 2>>, <<>>, ThreeSlots, 0)
\* Connected messages Client::new must refuse
ConnectedBad ==
    { Connected(0, 1, <<>>, <<1, 2>>, <<>>, ThreeSlots, 0),
      Connected(0, 4, ThreePlayers, <<1, 2>>, <<>>, ThreeSlots, 0),
      Connected(0, 1, ThreePlayers, <<1, 9>>, <<>>, ThreeSlots, 0),
      Connected(0, 1, ThreePlayers, <<1, 2>>, <<>>,
                (1 :> NetworkSlot("n1", "G", "Player", <<>>)), 0) }

RoomUpdate(tags, permissions, hint_cost, location_check_points, hint_points, players, checked_locations) ==
    [cmd |-> "RoomUpdate", tags |-> tags, permissions |-> permissions,
     hint_cost |-> hint_cost, location_check_points |-> location_check_points,
     hint_points |-> hint_points, players |-> players,
     checked_locations |-> checked_locations]

\* RoomUpdates every part of which is known to the session
RoomUpdatesValid ==
    { RoomUpdate(Some({"AP", "T"}), None, None, None, None, None, None),
      RoomUpdate(None, Some(Permissions("Enabled", "Goal", "Disabled")),
                 Some(100), Some(3), Some(7),
                 Some(<<NetworkPlayer(0, 2, "b2", "n2"),
                        NetworkPlayer(0, 3, "a3", "n3")>>), None),
      RoomUpdate(None, None, None, None, None,
                 Some(<<NetworkPlayer(0, 2, "c2", "m2")>>), None),
      RoomUpdate(None, None, None, None, None, None, Some(<<1>>)),
      RoomUpdate(None, None, None, None, None, None, Some(<<2, 1, 2>>)),
      RoomUpdate(Some({"T"}), None, None, None, None, None, Some(<<3>>)) }
\* RoomUpdates naming a player or a location the session does not know
RoomUpdatesInvalid ==
    { RoomUpdate(Some({"T"}), None, None, None, None,
                 Some(<<NetworkPlayer(0, 2, "b2", "n2"),
                        NetworkPlayer(1, 1, "z", "z")>>), None),
      RoomUpdate(Some({"T"}), Some(Permissions("Enabled", "Goal", "Disabled")),
                 Some(100), Some(3), Some(7), None, Some(<<2, 9>>)) }

PlainPrint(text) == [cmd |-> "Print", text |-> text]
RawPrint(slot) == [cmd |-> "PrintJSON", slot |-> slot]
InvalidPacket(text) == [cmd |-> "InvalidPacket", text |-> text]
ReceivedItems(index, items) ==
    [cmd |-> "ReceivedItems", index |-> index, items |-> items]
\* re names the request a LocationInfo or Retrieved answers (0: none); it is
\* the server's knowledge, the client never reads it
LocationInfo(locations, re) ==
    [cmd |-> "LocationInfo", locations |-> locations, re |-> re]
Retrieved(keys, re) == [cmd |-> "Retrieved", keys |-> keys, re |-> re]
SetReply(key, slot) == [cmd |-> "SetReply", key |-> key, slot |-> slot]

\* what the multiworld holds at each location of this player's slot
ItemAt(location) ==
    IF location = 2 THEN NetworkItem(11, 2, 2) ELSE NetworkItem(10, location, 1)

----------------------------------------------------------------------------
(* The session (src/src/client.rs).                                        *)

\* the first of the indices I at which an element is bad, 0 if there is
\* none: where collect::<Result<_, _>>() stops
FirstBad(I) ==
    IF I = {} THEN 0 ELSE CHOOSE i \in I : \A j \in I : i <= j

\* the value of the connection while it holds no Client
NoClient == [none |-> TRUE]
\* the value of the transport outside of its connect
NoTransport == [none |-> TRUE]

\* Client::new
ClientNew(game, room_info, data_package, connected) ==
    LET groupSlots == {k \in DOMAIN connected.slot_info :
                           connected.slot_info[k].type = "Group"}
        slot_info == [k \in (DOMAIN connected.slot_info) \ groupSlots |->
                           connected.slot_info[k]]
        groups == {connected.slot_info[k] : k \in groupSlots}
        strays == {m \in UNION {Range(g.group_members) : g \in groups} :
                       m \notin DOMAIN slot_info}
        GroupsOf(slot) == {g \in groups : slot \in Range(g.group_members)}
        NoSlot(p) == p.slot \notin DOMAIN slot_info /\ GroupsOf(p.slot) = {}
        GameOf(p) == IF p.slot \in DOMAIN slot_info
                     THEN slot_info[p.slot].game
                     ELSE (CHOOSE g \in GroupsOf(p.slot) : TRUE).game
        badPlayer == FirstBad({ix \in DOMAIN connected.players :
                                  NoSlot(connected.players[ix])})
        keys == {<<connected.players[i].team, connected.players[i].slot>> :
                     i \in DOMAIN connected.players}
        LastAt(k) == CHOOSE i \in DOMAIN connected.players :
                        /\ <<connected.players[i].team, connected.players[i].slot>> = k
                        /\ \A j \in DOMAIN connected.players :
                              <<connected.players[j].team, connected.players[j].slot>> = k
                                  => j <= i
        ids == connected.missing_locations \o connected.checked_locations
        NotInGame(id) == ~HasLocation(game, id)
        badLocation == FirstBad({ix \in DOMAIN ids : NotInGame(ids[ix])})
    IN
    IF connected.players = <<>> THEN Err(ErrEmptyPlayers)
    ELSE IF strays # {} THEN Err(ErrMissingSlotInfo(CHOOSE m \in strays : TRUE))
    ELSE IF badPlayer # 0
         THEN Err(ErrMissingSlotInfo(connected.players[badPlayer].slot))
    ELSE IF <<connected.team, connected.slot>> \notin keys
         THEN Err(ErrMissingPlayer(connected.team, connected.slot))
    ELSE IF game \notin data_package.games THEN Err(ErrMissingGameData(game))
    ELSE IF badLocation # 0 THEN Err(ErrMissingLocation(ids[badLocation], game))
    ELSE Ok([game |-> game,
             server_tags |-> room_info.tags,
             permissions |-> room_info.permissions,
             hint_cost_percentage |-> room_info.hint_cost,
             hint_points_per_check |-> room_info.location_check_points,
             hint_points |-> connected.hint_points,
             games |-> data_package.games,
             groups |-> groups,
             players |-> [k \in keys |->
                            Player(connected.players[LastAt(k)],
                                   GameOf(connected.players[LastAt(k)]))],
             player_key |-> <<connected.team, connected.slot>>,
             teams |-> CHOOSE t \in {k[1] : k \in keys} :
                          \A u \in {k[1] : k \in keys} : u <= t,
             local_locations_checked |->
                 [id \in Range(ids) |-> id \in Range(connected.checked_locations)],
             location_scout_senders |-> <<>>,
             get_senders |-> <<>>])

\* Client::points_per_hint
PointsPerHint(c) ==
    (Cardinality(DOMAIN c.local_locations_checked) * c.hint_cost_percentage) \div 100

\* Client::game: a game of the data package, or the Archipelago game
Game(c, name) ==
    IF name \in c.games \/ name = ArchipelagoName THEN Some(name) ELSE None
\* Client::game_or_err
GameOrErr(c, name) ==
    IF IsSome(Game(c, name)) THEN Ok(name) ELSE Err(ErrMissingGameData(name))
\* Client::this_game
ThisGameOf(c) == c.game
\* Client::teammate
Teammate(c, slot) == MapGet(c.players, <<c.player_key[1], slot>>)
\* Client::teammate_arc
TeammateArc(c, slot) ==
    IF IsSome(Teammate(c, slot)) THEN Ok(Unwrap(Teammate(c, slot)))
    ELSE Err(ErrMissingPlayer(c.player_key[1], slot))

\* Client::verify_local_locations
VerifyLocalLocations(c, locations) ==
    LET Unknown(id) == ~HasLocation(ThisGameOf(c), id)
        bad == FirstBad({ix \in DOMAIN locations : Unknown(locations[ix])})
    IN IF bad = 0 THEN Ok(locations)
       ELSE Err(ErrInvalidLocation(locations[bad], ThisGameOf(c)))
\* Client::verify_teammate
VerifyTeammate(c, slot) ==
    IF IsSome(Teammate(c, slot)) THEN Ok(Unwrap(Teammate(c, slot)))
    ELSE Err(ErrInvalidSlot(slot))

\* The mutation of mark_checked's credit test that credits every id.
CreditedAlways(previous) == TRUE

\* mark_checked's matches!(insert(id, true), Some(false))
Credited(previous) == previous = Some(FALSE)

\* the loop of Client::mark_checked over the verified ids
RECURSIVE MarkAll(_, _)
MarkAll(c, ids) ==
    IF ids = <<>> THEN c
    ELSE LET id == Head(ids)
             previous == MapGet(c.local_locations_checked, id)
         IN MarkAll([c EXCEPT
                        !.local_locations_checked = MapInsert(@, id, TRUE),
                        !.hint_points = IF Credited(previous)
                                        THEN @ + c.hint_points_per_check
                                        ELSE @],
                    Tail(ids))

\* The mutation of update_room's insert that stores false.
InsertUnchecked(map, id) == MapInsert(map, id, FALSE)

\* update_room's local_locations_checked.insert(loc.id(), true)
InsertChecked(map, id) == MapInsert(map, id, TRUE)

\* update_room's filter over checked_locations: the map after the inserts,
\* the locations kept for UpdatedField::CheckedLocations, and whether an
\* insert returned None, on which unwrap() panics
RECURSIVE CheckAll(_, _, _)
CheckAll(map, ids, kept) ==
    IF ids = <<>> THEN [map |-> map, kept |-> kept, panic |-> FALSE]
    ELSE LET id == Head(ids)
             previous == MapGet(map, id)
         IN IF previous = None
            THEN [map |-> InsertChecked(map, id), kept |-> kept, panic |-> TRUE]
            ELSE CheckAll(InsertChecked(map, id), Tail(ids),
                          IF Unwrap(previous) THEN kept ELSE Append(kept, id))

\* update_room's validation of update.checked_locations
CheckedLocationsOrErr(c, u) ==
    IF u.checked_locations = None THEN Ok(None)
    ELSE LET ids == Unwrap(u.checked_locations)
             Unknown(id) == ~HasLocation(ThisGameOf(c), id)
             bad == FirstBad({ix \in DOMAIN ids : Unknown(ids[ix])})
         IN IF bad = 0 THEN Ok(Some(ids))
            ELSE Err(ErrMissingLocation(ids[bad], ThisGameOf(c)))

\* update_room's validation of update.players: the players whose alias
\* changes, hydrated with the game of the player they replace
UpdatedPlayersOrErr(c, u) ==
    IF u.players = None THEN Ok(None)
    ELSE LET new == Unwrap(u.players)
             Unknown(n) == <<n.team, n.slot>> \notin DOMAIN c.players
             bad == FirstBad({ix \in DOMAIN new : Unknown(new[ix])})
             Changed(i) == c.players[<<new[i].team, new[i].slot>>].alias # new[i].alias
             Hydrated(i) == Player(new[i], c.players[<<new[i].team, new[i].slot>>].game)
             \* the changed players, in the order of the message
             RECURSIVE Collect(_)
             Collect(i) == IF i > Len(new) THEN <<>>
                           ELSE IF Changed(i) THEN <<Hydrated(i)>> \o Collect(i + 1)
                           ELSE Collect(i + 1)
         IN IF bad # 0 THEN Err(ErrMissingPlayer(new[bad].team, new[bad].slot))
            ELSE Ok(Some(Collect(1)))

\* update_room's swap of the players: the map after the inserts and the
\* players they replaced
RECURSIVE InsertPlayers(_, _, _)
InsertPlayers(players, new, old) ==
    IF new = <<>> THEN [players |-> players, old |-> old]
    ELSE LET k == <<Head(new).team, Head(new).slot>> IN
         InsertPlayers(MapInsert(players, k, Head(new)), Tail(new),
                       old \o MapGet(players, k))

UpdateRoomResult(res, c, panic) == [res |-> res, client |-> c, panic |-> panic]

\* the part of Client::update_room that follows the validation
ApplyRoomUpdate(c, u, new_players, checked) ==
    LET c1 == IF IsSome(u.tags) THEN [c EXCEPT !.server_tags = Unwrap(u.tags)] ELSE c
        f1 == IF IsSome(u.tags)
              THEN <<[field |-> "ServerTags", tags |-> c.server_tags]>> ELSE <<>>
        c2 == IF IsSome(u.permissions)
              THEN [c1 EXCEPT !.permissions = Unwrap(u.permissions)] ELSE c1
        f2 == IF IsSome(u.permissions)
              THEN <<[field |-> "Permissions", permissions |-> c1.permissions]>>
              ELSE <<>>
        economy == IsSome(u.hint_cost) \/ IsSome(u.location_check_points)
        c3 == [c2 EXCEPT
                 !.hint_cost_percentage =
                     IF IsSome(u.hint_cost) THEN Unwrap(u.hint_cost) ELSE @,
                 !.hint_points_per_check =
                     IF IsSome(u.location_check_points)
                     THEN Unwrap(u.location_check_points) ELSE @]
        f3 == IF economy
              THEN <<[field |-> "HintEconomy",
                      points_per_hint |-> PointsPerHint(c2),
                      hint_points_per_check |-> c2.hint_points_per_check]>>
              ELSE <<>>
        c4 == IF IsSome(u.hint_points)
              THEN [c3 EXCEPT !.hint_points = Unwrap(u.hint_points)] ELSE c3
        f4 == IF IsSome(u.hint_points)
              THEN <<[field |-> "HintPoints", hint_points |-> c3.hint_points]>>
              ELSE <<>>
        swap == InsertPlayers(c4.players,
                              IF IsSome(new_players) THEN Unwrap(new_players) ELSE <<>>,
                              <<>>)
        c5 == [c4 EXCEPT !.players = swap.players]
        f5 == IF IsSome(new_players)
              THEN <<[field |-> "Players", players |-> swap.old]>> ELSE <<>>
        marks == CheckAll(c5.local_locations_checked,
                          IF IsSome(checked) THEN Unwrap(checked) ELSE <<>>, <<>>)
        c6 == [c5 EXCEPT !.local_locations_checked = marks.map]
        f6 == IF IsSome(checked)
              THEN <<[field |-> "CheckedLocations", locations |-> marks.kept]>>
              ELSE <<>>
    IN UpdateRoomResult(
           Ok([type |-> "Updated", fields |-> f1 \o f2 \o f3 \o f4 \o f5 \o f6]),
           c6, marks.panic)

\* The mutation of update_room that replaces the tags before it validates.
UpdateRoomTagsFirst(c, u) ==
    LET checked == CheckedLocationsOrErr(c, u)
        new_players == UpdatedPlayersOrErr(c, u)
        c1 == IF IsSome(u.tags) THEN [c EXCEPT !.server_tags = Unwrap(u.tags)] ELSE c
    IN IF ~checked.ok THEN UpdateRoomResult(checked, c1, FALSE)
       ELSE IF ~new_players.ok THEN UpdateRoomResult(new_players, c1, FALSE)
       ELSE ApplyRoomUpdate(c, u, Unwrap(new_players.val), Unwrap(checked.val))

\* Client::update_room
UpdateRoom(c, u) ==
    LET checked == CheckedLocationsOrErr(c, u)
        new_players == UpdatedPlayersOrErr(c, u)
    IN IF ~checked.ok THEN UpdateRoomResult(checked, c, FALSE)
       ELSE IF ~new_players.ok THEN UpdateRoomResult(new_players, c, FALSE)
       ELSE ApplyRoomUpdate(c, u, Unwrap(new_players.val), Unwrap(checked.val))

----------------------------------------------------------------------------
(* Events (src/src/event.rs) and the dispatch of one server message by     *)
(* Client::update.                                                         *)

EventError(e) == [type |-> "Error", error |-> e]
EventConnected == [type |-> "Connected"]
EventPrint(text) == [type |-> "Print", text |-> text]

\* the oneshot channel of a request: pending until a result is sent into
\* it; by is the re of the server message whose dispatch resolved it
Pending(kind) == [kind |-> kind, status |-> "pending", res |-> None, by |-> 0]
Resolved(promise, res, by) ==
    [promise EXCEPT !.status = "resolved", !.res = Some(res), !.by = by]

\* the receiver of the channel is dropped by the caller
Dropped(promise) == [promise EXCEPT !.status = "dropped"]
\* oneshot::Sender::send: the value reaches the receiver, or comes back as
\* Err(value) when the receiver was dropped
SenderSend(promise, res, by) ==
    IF promise.status = "dropped" THEN [promise |-> promise, res |-> Err(res)]
    ELSE [promise |-> Resolved(promise, res, by), res |-> Ok(<<>>)]
\* mem::drop of the Result of send: nothing is reported
MemDrop(result) == <<>>

\* The mutation of the dispatch that takes the youngest sender.
PopBack(queue) ==
    [sender |-> Some(Last(queue)), rest |-> SubSeq(queue, 1, Len(queue) - 1)]

\* VecDeque::pop_front of a queue that is not empty
PopFront(queue) == [sender |-> Some(Head(queue)), rest |-> Tail(queue)]

\* LocatedItem::hydrate_with_games
HydrateWithGames(network, sender, receiver, sender_game, receiver_game) ==
    LET item == ItemOrErr(receiver_game, network.item)
        location == IF WellKnown(network.location) THEN Ok(network.location)
                    ELSE LocationOrErr(sender_game, network.location)
    IN IF ~item.ok THEN item
       ELSE IF ~location.ok THEN location
       ELSE Ok([item |-> network.item, location |-> network.location,
                sender |-> sender.slot, receiver |-> receiver.slot])

\* hydrate_with_games' debug_assert!s: whether a debug build panics
DebugAssertFails(network, sender, receiver, sender_game, receiver_game) ==
    \/ ~(network.player = sender.slot \/ network.player = receiver.slot)
    \/ sender.game # sender_game
    \/ receiver.game # receiver_game

\* one element of the ReceivedItems arm
HydrateReceived(c, network) ==
    LET sender == TeammateArc(c, network.player)
        sender_game == GameOrErr(c, Unwrap(sender.val).game)
    IN IF ~sender.ok THEN sender
       ELSE IF ~sender_game.ok THEN sender_game
       ELSE HydrateWithGames(network, Unwrap(sender.val), c.players[c.player_key],
                             Unwrap(sender_game.val), ThisGameOf(c))

\* one element of the LocationInfo arm
HydrateScouted(c, network) ==
    LET sender == c.players[c.player_key]
        receiver == TeammateArc(c, network.player)
        receiver_game == GameOrErr(c, sender.game)
    IN IF ~receiver.ok THEN receiver
       ELSE IF ~receiver_game.ok THEN receiver_game
       ELSE HydrateWithGames(network, sender, Unwrap(receiver.val),
                             ThisGameOf(c), Unwrap(receiver_game.val))

\* whether a debug build panics on an element of the LocationInfo arm
ScoutedAssertFails(c, network) ==
    LET sender == c.players[c.player_key]
        receiver == TeammateArc(c, network.player)
        receiver_game == GameOrErr(c, sender.game)
    IN /\ receiver.ok
       /\ receiver_game.ok
       /\ DebugAssertFails(network, sender, Unwrap(receiver.val),
                           ThisGameOf(c), Unwrap(receiver_game.val))

\* The mutation of the collection that yields the values last to first.
CollectReversed(results) ==
    LET Failed(r) == ~r.ok
        bad == FirstBad({ix \in DOMAIN results : Failed(results[ix])})
    IN IF bad # 0 THEN results[bad]
       ELSE Ok([i \in DOMAIN results |->
                   Unwrap(results[Len(results) + 1 - i].val)])

\* collect::<Result<Vec<_>, Error>>(): the first error, else every value
CollectResults(results) ==
    LET Failed(r) == ~r.ok
        bad == FirstBad({ix \in DOMAIN results : Failed(results[ix])})
    IN IF bad # 0 THEN results[bad]
       ELSE Ok([i \in DOMAIN results |-> Unwrap(results[i].val)])

\* Print::hydrate of a rich print naming a player by slot
HydratePrint(c, m) ==
    IF IsSome(Teammate(c, m.slot)) THEN Ok(EventPrint("rich"))
    ELSE Err(ErrMissingPlayer(c.player_key[1], m.slot))

Dispatched(c, push, ps, panic) ==
    [client |-> c, push |-> push, promises |-> ps, panic |-> panic]

\* the arm of Client::update's match for message m; debug tells whether
\* debug assertions are compiled in
Dispatch(c, ps, m, debug) ==
    CASE m.cmd = "PrintJSON" ->
            LET print == HydratePrint(c, m) IN
            Dispatched(c, IF print.ok THEN <<Unwrap(print.val)>>
                          ELSE <<EventError(Unwrap(print.err))>>, ps, FALSE)
      [] m.cmd = "Print" -> Dispatched(c, <<EventPrint(m.text)>>, ps, FALSE)
      [] m.cmd = "RoomUpdate" ->
            LET r == UpdateRoom(c, m) IN
            Dispatched(r.client,
                       IF r.panic THEN <<>>
                       ELSE IF r.res.ok THEN <<Unwrap(r.res.val)>>
                       ELSE <<EventError(Unwrap(r.res.err))>>,
                       ps, r.panic)
      [] m.cmd = "ReceivedItems" ->
            LET items == CollectResults(
                    [i \in DOMAIN m.items |-> HydrateReceived(c, m.items[i])])
            IN Dispatched(c,
                          IF items.ok
                          THEN <<[type |-> "ReceivedItems", index |-> m.index,
                                  items |-> Unwrap(items.val)]>>
                          ELSE <<EventError(Unwrap(items.err))>>,
                          ps, FALSE)
      [] m.cmd = "LocationInfo" ->
            LET locations == CollectResults(
                    [i \in DOMAIN m.locations |-> HydrateScouted(c, m.locations[i])])
                asserts == \E i \in DOMAIN m.locations :
                               ScoutedAssertFails(c, m.locations[i])
                pop == PopFront(c.location_scout_senders)
                sent == SenderSend(ps[Unwrap(pop.sender)], locations, m.re)
            IN IF debug /\ asserts THEN Dispatched(c, <<>>, ps, TRUE)
               ELSE IF c.location_scout_senders # <<>>
               THEN Dispatched([c EXCEPT !.location_scout_senders = pop.rest],
                               MemDrop(sent.res),
                               [ps EXCEPT ![Unwrap(pop.sender)] = sent.promise],
                               FALSE)
               ELSE Dispatched(c,
                               <<EventError(ErrResponseWithoutRequest("LocationInfo"))>>,
                               ps, FALSE)
      [] m.cmd = "Bounced" /\ m.data.kind = "Generic" ->
            Dispatched(c, <<[type |-> "Bounce", tags |-> m.tags,
                             data |-> m.data.value]>>, ps, FALSE)
      [] m.cmd = "Bounced" /\ m.data.kind = "DeathLink" ->
            IF m.tags = None THEN Dispatched(c, <<>>, ps, TRUE)
            ELSE Dispatched(c, <<[type |-> "DeathLink", tags |-> Unwrap(m.tags),
                                  source |-> m.data.source]>>, ps, FALSE)
      [] m.cmd = "InvalidPacket" ->
            Dispatched(c, <<EventError(ErrInvalidPacket(m.text))>>, ps, FALSE)
      [] m.cmd = "Retrieved" ->
            LET pop == PopFront(c.get_senders)
                sent == SenderSend(ps[Unwrap(pop.sender)], Ok(m.keys), m.re)
            IN
            IF c.get_senders # <<>>
            THEN Dispatched([c EXCEPT !.get_senders = pop.rest],
                            MemDrop(sent.res),
                            [ps EXCEPT ![Unwrap(pop.sender)] = sent.promise],
                            FALSE)
            ELSE Dispatched(c, <<EventError(ErrResponseWithoutRequest("Get"))>>,
                            ps, FALSE)
      [] m.cmd = "SetReply" ->
            LET player == TeammateArc(c, m.slot) IN
            Dispatched(c,
                       IF player.ok
                       THEN <<[type |-> "KeyChanged", key |-> m.key, slot |-> m.slot]>>
                       ELSE <<EventError(Unwrap(player.err))>>,
                       ps, FALSE)
      [] OTHER -> Dispatched(c, <<>>, ps, TRUE)

----------------------------------------------------------------------------
(* The connection (src/src/connection.rs).                                 *)

\* The mutation of the handshake that asks to connect at once.
ConnectBeforeDataPackage == [cmd |-> "Connect", game |-> "G"]

ClientGetDataPackage == [cmd |-> "GetDataPackage"]
ClientConnect == [cmd |-> "Connect", game |-> ThisGame]

NoHandshake == [room_info |-> None, data_package |-> None]

\* The mutation of the state that starts the session with an empty buffer.
ConnStateFresh(st, cs, h, e, c, msgs, w, out) ==
    [state |-> st, cstate |-> cs, hs |-> h, err |-> e, client |-> c,
     messages |-> IF st = "Connected" THEN <<>> ELSE msgs, wire |-> w,
     outbox |-> out]

\* the ConnectionState a Connecting::update leaves, with the socket
ConnState(st, cs, h, e, c, msgs, w, out) ==
    [state |-> st, cstate |-> cs, hs |-> h, err |-> e, client |-> c,
     messages |-> msgs, wire |-> w, outbox |-> out]
\* From<Error> for ConnectionState: Disconnected(e); the socket is dropped
Disconnected(e, out) ==
    ConnState("Disconnected", "None", NoHandshake, Some(e), NoClient, <<>>, <<>>, out)

\* Connecting::update in one of the ApAwaiting states
AwaitingUpdate(cs, h, msgs, w, f, out) ==
    LET r == TryRecv(msgs, w, f)
        m == Unwrap(Unwrap(r.res.val))
        Unexpected == Disconnected(ErrUnexpectedResponse(m.cmd, "RoomInfo"), out)
    IN
    IF ~r.res.ok THEN Disconnected(Unwrap(r.res.err), out)
    ELSE IF Unwrap(r.res.val) = None
    THEN ConnState("Connecting", cs, h, None, NoClient, r.messages, r.wire, out)
    ELSE CASE cs = "ApAwaitingRoomInfo" ->
                 IF m.cmd = "RoomInfo"
                 THEN LET sent == Send(out, f, ClientGetDataPackage) IN
                      IF ~sent.res.ok THEN Disconnected(Unwrap(sent.res.err), out)
                      ELSE ConnState("Connecting", "ApAwaitingDataPackage",
                                     [h EXCEPT !.room_info = Some(m)], None,
                                     NoClient, r.messages, r.wire, sent.outbox)
                 ELSE Unexpected
           [] cs = "ApAwaitingDataPackage" ->
                 IF m.cmd = "DataPackage"
                 THEN LET sent == Send(out, f, ClientConnect) IN
                      IF ~sent.res.ok THEN Disconnected(Unwrap(sent.res.err), out)
                      ELSE ConnState("Connecting", "ApAwaitingConnected",
                                     [h EXCEPT !.data_package = Some(m)], None,
                                     NoClient, r.messages, r.wire, sent.outbox)
                 ELSE IF m.cmd = "ConnectionRefused"
                 THEN Disconnected(ErrConnectionRefused(
                          [i \in DOMAIN m.errors |-> ConnectionErrorFrom(m.errors[i])]),
                          out)
                 ELSE Unexpected
           [] OTHER ->
                 IF m.cmd = "Connected"
                 THEN LET new == ClientNew(ThisGame, Unwrap(h.room_info),
                                           Unwrap(h.data_package), m)
                      IN IF new.ok
                         THEN ConnState("Connected", "None", NoHandshake, None,
                                        Unwrap(new.val), r.messages, r.wire, out)
                         ELSE Disconnected(Unwrap(new.err), out)
                 ELSE Unexpected

\* Connecting::update; handshake is the outcome of MidHandshakeSocket::
\* handshake while the WebSocket is being established
ConnectingUpdate(cs, h, msgs, w, f, out, handshake) ==
    IF cs = "SocketConnecting"
    THEN CASE handshake = "Ok" ->
                 AwaitingUpdate("ApAwaitingRoomInfo", h, msgs, w, f, out)
           [] handshake = "WouldBlock" ->
                 ConnState("Connecting", cs, h, None, NoClient, msgs, w, out)
           [] OTHER -> Disconnected(ErrWebSocket, out)
    ELSE AwaitingUpdate(cs, h, msgs, w, f, out)

\* ordinal of a ConnectionStateType in the life cycle
Rank(st) == CASE st = "Connecting" -> 0 [] st = "Connected" -> 1 [] OTHER -> 2

\* The mutation of the transition report that reports every update.
StateTransitionAlways(old, new) == Some([old |-> old, new |-> new])

\* Connection::update's report: None when the state type is unchanged
StateTransition(old, new) ==
    IF old = new THEN None ELSE Some([old |-> old, new |-> new])

\* The mutation of the report that announces the connection while it is
\* still being made.
HandshakeEventsEager(new) ==
    CASE new = "Disconnected" -> <<[type |-> "Error", error |-> [type |-> "Elsewhere"]]>>
      [] OTHER -> <<[type |-> "Connected"]>>

\* the events Connection::update returns for a step of the handshake
HandshakeEvents(new) ==
    CASE new = "Connected" -> <<EventConnected>>
      [] new = "Disconnected" -> <<EventError(ErrElsewhere)>>
      [] OTHER -> <<>>

\* the first fatal error among the events of Client::update, 0 if none
FirstFatal(evs) ==
    LET Fatal(e) == e.type = "Error" /\ IsFatal(e.error)
    IN FirstBad({ix \in DOMAIN evs : Fatal(evs[ix])})

\* the events Connection::update returns for those of Client::update: a
\* fatal error ends them, replaced by Error::Elsewhere
ConnectedEvents(evs) ==
    IF FirstFatal(evs) = 0 THEN evs
    ELSE Append(SubSeq(evs, 1, FirstFatal(evs) - 1), EventError(ErrElsewhere))

\* dropping the Client drops its senders: pending receivers are cancelled
Cancelled(ps) ==
    [i \in DOMAIN ps |->
        IF ps[i].status = "pending" THEN [ps[i] EXCEPT !.status = "cancelled"]
        ELSE ps[i]]

----------------------------------------------------------------------------
(* The datapackage cache (src/src/cache.rs, src/src/util.rs).  A path is   *)
(* the sequence of its components below Cache::data_package_path(); a node *)
(* of the filesystem is a directory or a file holding a text; a text is    *)
(* the sequence of its tokens.                                             *)

\* protocol::GameData: the checksum and the rest (the name to id maps)
GameData(checksum, body) == [checksum |-> checksum, body |-> body]

\* serde_json::to_string(&data)
ToJson(data) == <<"{", data.checksum, data.body, "}">>
\* serde_json::from_str::<GameData>(&file)
FromJson(text) ==
    IF Len(text) = 4 /\ text[1] = "{" /\ text[4] = "}"
    THEN Ok(GameData(text[2], text[3]))
    ELSE Err([type |-> "Json"])

\* io::Error
IoError(kind) == [type |-> "Async", kind |-> kind]

DirNode == [type |-> "Dir", content |-> <<>>]
FileNode(text) == [type |-> "File", content |-> text]
NoFiles == [path \in {} |-> DirNode]

\* PathBuf::pop
Parent(path) == SubSeq(path, 1, Len(path) - 1)
\* the root, data_package_path(), is made by create_dir_all when missing
IsDir(fs, path) == path = <<>> \/ (path \in DOMAIN fs /\ fs[path].type = "Dir")
IsFile(fs, path) == path \in DOMAIN fs /\ fs[path].type = "File"

\* the outcome of an operation that may change the filesystem
FsResult(res, fs) == [res |-> res, files |-> fs]

\* fs::read_to_string
ReadToString(fs, path) ==
    IF IsFile(fs, path) THEN Ok(fs[path].content)
    ELSE IF path \in DOMAIN fs THEN Err(IoError("IsADirectory"))
    ELSE Err(IoError("NotFound"))

\* fs::create_dir_all
CreateDirAll(fs, path) ==
    IF IsDir(fs, path) THEN FsResult(Ok(<<>>), fs)
    ELSE IF path \in DOMAIN fs THEN FsResult(Err(IoError("AlreadyExists")), fs)
    ELSE FsResult(Ok(<<>>), MapInsert(fs, path, DirNode))

\* fs::write, first half: File::create opens the file and truncates it
OpenTruncate(fs, path) ==
    IF IsDir(fs, path) THEN FsResult(Err(IoError("IsADirectory")), fs)
    ELSE IF ~IsDir(fs, Parent(path)) THEN FsResult(Err(IoError("NotFound")), fs)
    ELSE FsResult(Ok(<<>>), MapInsert(fs, path, FileNode(<<>>)))
\* fs::write, second half: write_all puts the contents in the open file
WriteAll(fs, path, contents) == MapInsert(fs, path, FileNode(contents))

\* fs::rename: the node moves to its new path in one step
Rename(fs, from, to) ==
    IF from \notin DOMAIN fs THEN FsResult(Err(IoError("NotFound")), fs)
    ELSE IF IsDir(fs, to) /\ fs[from].type = "File"
    THEN FsResult(Err(IoError("IsADirectory")), fs)
    ELSE FsResult(Ok(<<>>),
                  [path \in (DOMAIN fs \ {from}) \cup {to} |->
                      IF path = to THEN fs[from] ELSE fs[path]])

\* the checksums the data packages of a run carry
Checksums == {"x", "y"}

\* dir.join(game)
GameDir(game) == <<game>>
\* dir.join(game).join(format!("{checksum}.json"))
PackagePath(game, checksum) == <<game, checksum \o ".json">>

\* Path::file_stem and Path::extension of "<checksum>.json"
FileStem(path) == CHOOSE c \in Checksums : Last(path) = c \o ".json"
Extension(path) == "json"

\* write_file_atomic's tmp_basename: stem, "-tmp-", a random number and
\* the extension; it is computed and never joined to tmp_path
TmpBasename(path, random) ==
    FileStem(path) \o "-tmp-" \o ToString(random) \o Extension(path)
\* write_file_atomic's tmp_path when fs::write is called: the path with its
\* last component popped
TmpPath(path) == Parent(path)

\* The mutation of the load that trusts the name of the file.
ChecksumIgnored(data, checksum) == TRUE

\* load_data_packages' guard: the checksum inside the file is the expected
ChecksumMatches(data, checksum) == data.checksum = checksum

\* one iteration of the loop of load_data_packages
LoadOne(fs, data_packages, game, checksum) ==
    LET path == PackagePath(game, checksum)
        file == ReadToString(fs, path)
        parsed == FromJson(Unwrap(file.val))
    IN IF ~file.ok THEN data_packages
       ELSE IF parsed.ok /\ ChecksumMatches(Unwrap(parsed.val), checksum)
       THEN MapInsert(data_packages, game, Unwrap(parsed.val))
       ELSE data_packages

\* the calls of Cache while none is in progress
NoPackages == [game \in {} |-> GameData("", "")]
NoChecksums == [game \in {} |-> ""]
StoreIdle ==
    [pc |-> "idle", packages |-> NoPackages, todo |-> {}, game |-> "",
     calls |-> 0, completed |-> 0]
LoadIdle ==
    [pc |-> "idle", request |-> NoChecksums, todo |-> {}, result |-> NoPackages,
     since |-> 0, calls |-> 0]

----------------------------------------------------------------------------
(* The inputs of a run.                                                    *)

\* what the server may send while the client connects
HandshakeFrames ==
    { TextFrame(<<RoomInfo>>),
      TextFrame(<<DataPackage({"G", "H"})>>),
      TextFrame(<<DataPackage({"H"})>>),
      TextFrame(<<ConnectionRefused(<<"InvalidSlot", "Banned">>)>>),
      TextFrame(<<ConnectedGood>>),
      BinaryFrame }
    \cup { TextFrame(<<m>>) : m \in ConnectedBad }

\* what the server may send of its own accord once the session is set up
SessionFrames ==
    { TextFrame(<<u>>) : u \in RoomUpdatesValid \cup RoomUpdatesInvalid }
    \cup
    { TextFrame(<<InvalidPacket("cmd")>>),
      TextFrame(<<PlainPrint("hi"), InvalidPacket("cmd")>>),
      TextFrame(<<PlainPrint("hi"), BadElement>>),
      TextFrame(<<LocationInfo(<<ItemAt(1)>>, 0)>>),
      TextFrame(<<LocationInfo(<<ItemAt(2)>>, 0)>>),
      TextFrame(<<Retrieved(<<[key |-> "k", value |-> 0]>>, 0)>>),
      TextFrame(<<InternalBounced(Some({"DeathLink", "T"}), Some(DeathLinkValue("n2")))>>),
      TextFrame(<<InternalBounced(Some({"T"}), Some(DeathLinkValue("n2")))>>),
      TextFrame(<<InternalBounced(None, Some(OtherValue))>>),
      TextFrame(<<InternalBounced(Some({"DeathLink"}), None)>>),
      TextFrame(<<RoomInfo>>),
      TextFrame(<<>>),
      BinaryFrame, InvalidFrame, OtherFrame }

\* the lists of location ids the caller passes
LocationLists == { <<1>>, <<1, 2, 1>>, <<3>>, <<2, 9>> }
\* the (slot, location) pairs the caller passes to update_hint
HintTargets == { <<2, 4>>, <<2, 1>>, <<3, 4>>, <<4, 4>> }

\* whether a frame carries a response the client did not ask for
Unsolicited(frame) ==
    \E i \in DOMAIN frame.elems : frame.elems[i].cmd \in {"LocationInfo", "Retrieved"}

\* the requests of the outbox that expect a response, in the order sent
RECURSIVE Requests(_)
Requests(out) ==
    IF out = <<>> THEN <<>>
    ELSE IF Head(out).cmd \in {"LocationScouts", "Get"}
         THEN <<Head(out)>> \o Requests(Tail(out))
         ELSE Requests(Tail(out))

\* the server's response to a request
Answer(request) ==
    IF request.cmd = "LocationScouts"
    THEN LocationInfo([i \in DOMAIN request.locations |-> ItemAt(request.locations[i])],
                      request.id)
    ELSE Retrieved(<<[key |-> "k", value |-> request.id]>>, request.id)

----------------------------------------------------------------------------
(* Initial states: Connection::new.                                        *)

Init ==
    /\ \/ /\ state = "Connecting"
          /\ cstate = "SocketConnecting"
          /\ err = None
       \/ /\ state = "Disconnected"
          /\ cstate = "None"
          /\ err \in {Some(ErrNoProtocol), Some(ErrWebSocket)}
    /\ hs = NoHandshake
    /\ transition = None
    /\ client = NoClient
    /\ messages = <<>>
    /\ wire = <<>>
    /\ failed = FALSE
    /\ outbox = <<>>
    /\ pc = "idle"
    /\ events = <<>>
    /\ promises = <<>>
    /\ last = [op |-> "new"]
    /\ hist = [hframes |-> 0, frames |-> 0, calls |-> 0, answered |-> 0,
               orderly |-> TRUE]
    /\ files = NoFiles
    /\ cache = [store |-> StoreIdle, load |-> LoadIdle, fresh |-> TRUE]
    /\ transport = NoTransport

----------------------------------------------------------------------------
(* The server and the transport.                                           *)

ServerHandshake ==
    /\ state = "Connecting"
    /\ ~failed
    /\ hist.hframes < MaxHandshakeFrames
    /\ Len(wire) < MaxWire
    /\ \E frame \in HandshakeFrames : wire' = Append(wire, frame)
    /\ hist' = [hist EXCEPT !.hframes = @ + 1]
    /\ UNCHANGED <<state, cstate, hs, err, transition, client, messages, failed,
                   outbox, pc, events, promises, last>>
    /\ UNCHANGED <<cachevars, transport>>

ServerSend ==
    /\ state = "Connected"
    /\ pc # "panicked"
    /\ ~failed
    /\ hist.frames < MaxFrames
    /\ Len(wire) < MaxWire
    /\ \E frame \in SessionFrames :
          /\ wire' = Append(wire, frame)
          /\ hist' = [hist EXCEPT !.frames = @ + 1,
                                  !.orderly = @ /\ ~Unsolicited(frame)]
    /\ UNCHANGED <<state, cstate, hs, err, transition, client, messages, failed,
                   outbox, pc, events, promises, last>>
    /\ UNCHANGED <<cachevars, transport>>

\* the server answers the oldest request it has not answered yet
ServerAnswer ==
    /\ state = "Connected"
    /\ pc # "panicked"
    /\ ~failed
    /\ hist.frames < MaxFrames
    /\ Len(wire) < MaxWire
    /\ hist.answered < Len(Requests(outbox))
    /\ wire' = Append(wire, TextFrame(<<Answer(Requests(outbox)[hist.answered + 1])>>))
    /\ hist' = [hist EXCEPT !.frames = @ + 1, !.answered = @ + 1]
    /\ UNCHANGED <<state, cstate, hs, err, transition, client, messages, failed,
                   outbox, pc, events, promises, last>>
    /\ UNCHANGED <<cachevars, transport>>

\* the connection is closed or lost: what was received can still be read
TransportFail ==
    /\ state # "Disconnected"
    /\ pc # "panicked"
    /\ ~failed
    /\ failed' = TRUE
    /\ UNCHANGED <<state, cstate, hs, err, transition, client, messages, wire,
                   outbox, pc, events, promises, last, hist>>
    /\ UNCHANGED <<cachevars, transport>>

----------------------------------------------------------------------------
(* Connection::update.                                                     *)

\* Connection::update while Connecting
UpdateConnecting ==
    /\ pc = "idle"
    /\ state = "Connecting"
    /\ \E handshake \in IF failed THEN {"Failure"} ELSE {"Ok", "WouldBlock", "Failure"} :
          LET new == ConnectingUpdate(cstate, hs, messages, wire, failed, outbox,
                                      handshake)
          IN /\ state' = new.state
             /\ cstate' = new.cstate
             /\ hs' = new.hs
             /\ err' = new.err
             /\ client' = new.client
             /\ messages' = new.messages
             /\ wire' = new.wire
             /\ outbox' = new.outbox
             /\ transition' = StateTransition(state, new.state)
             /\ events' = HandshakeEvents(new.state)
    /\ last' = [op |-> "update", from |-> "Connecting"]
    /\ UNCHANGED <<failed, pc, promises, hist>>
    /\ UNCHANGED <<cachevars, transport>>

\* Connection::update while Disconnected
UpdateDisconnected ==
    /\ pc = "idle"
    /\ state = "Disconnected"
    /\ transition' = None
    /\ events' = <<>>
    /\ last' = [op |-> "update", from |-> "Disconnected"]
    /\ UNCHANGED <<state, cstate, hs, err, client, messages, wire, failed,
                   outbox, pc, promises, hist>>
    /\ UNCHANGED <<cachevars, transport>>

\* Connection::update while Connected: Client::update is entered
UpdateConnected ==
    /\ pc = "idle"
    /\ state = "Connected"
    /\ pc' = "updating"
    /\ transition' = None
    /\ events' = <<>>
    /\ last' = [op |-> "update", from |-> "Connected"]
    /\ UNCHANGED <<state, cstate, hs, err, client, messages, wire, failed,
                   outbox, promises, hist>>
    /\ UNCHANGED <<cachevars, transport>>

\* One iteration of the loop of Client::update.  When try_recv returns
\* Ok(None) the loop returns and Connection::update finishes: a fatal error
\* among the events moves the connection to Disconnected.  The model stops
\* recording the errors of a call once it holds MaxEvents events.
ClientUpdateStep ==
    /\ pc = "updating"
    /\ \E debug \in BOOLEAN :
       LET r == TryRecv(messages, wire, failed) IN
       IF ~r.res.ok
       THEN /\ events' = IF Len(events) < MaxEvents
                         THEN Append(events, EventError(Unwrap(r.res.err)))
                         ELSE events
            /\ messages' = r.messages
            /\ wire' = r.wire
            /\ last' = [op |-> "recv_error", error |-> Unwrap(r.res.err)]
            /\ UNCHANGED <<state, cstate, hs, err, transition, client, pc, promises>>
       ELSE IF Unwrap(r.res.val) # None
       THEN LET m == Unwrap(Unwrap(r.res.val))
                d == Dispatch(client, promises, m, debug)
            IN /\ client' = d.client
               /\ promises' = d.promises
               /\ events' = events \o d.push
               /\ pc' = IF d.panic THEN "panicked" ELSE "updating"
               /\ messages' = r.messages
               /\ wire' = r.wire
               /\ last' = [op |-> "dispatch", msg |-> m, panic |-> d.panic]
               /\ UNCHANGED <<state, cstate, hs, err, transition>>
       ELSE IF FirstFatal(events) = 0
       THEN /\ pc' = "idle"
            /\ messages' = r.messages
            /\ wire' = r.wire
            /\ events' = ConnectedEvents(events)
            /\ last' = [op |-> "return", fatal |-> FALSE]
            /\ UNCHANGED <<state, cstate, hs, err, transition, client, promises>>
       ELSE /\ pc' = "idle"
            /\ state' = "Disconnected"
            /\ err' = Some(events[FirstFatal(events)].error)
            /\ transition' = StateTransition("Connected", "Disconnected")
            /\ client' = NoClient
            /\ messages' = <<>>
            /\ wire' = <<>>
            /\ promises' = Cancelled(promises)
            /\ events' = ConnectedEvents(events)
            /\ last' = [op |-> "return", fatal |-> TRUE]
            /\ UNCHANGED <<cstate, hs>>
    /\ UNCHANGED <<failed, outbox, hist>>
    /\ UNCHANGED <<cachevars, transport>>

----------------------------------------------------------------------------
(* The requests of the caller (src/src/client.rs).                         *)

CanCall ==
    /\ pc = "idle"
    /\ state = "Connected"
    /\ hist.calls < MaxCalls

\* Client::mark_checked
MarkChecked ==
    /\ CanCall
    /\ \E locations \in LocationLists :
       LET verified == VerifyLocalLocations(client, locations)
           sent == Send(outbox, failed,
                        [cmd |-> "LocationChecks", locations |-> locations])
           res == IF ~verified.ok THEN verified ELSE sent.res
       IN /\ outbox' = IF verified.ok THEN sent.outbox ELSE outbox
          /\ client' = IF res.ok THEN MarkAll(client, locations) ELSE client
          /\ last' = [op |-> "mark_checked", locations |-> locations,
                      ok |-> res.ok, err |-> res.err]
    /\ hist' = [hist EXCEPT !.calls = @ + 1]
    /\ UNCHANGED <<state, cstate, hs, err, transition, messages, wire, failed,
                   pc, events, promises>>
    /\ UNCHANGED <<cachevars, transport>>

\* Client::scout_locations
ScoutLocations ==
    /\ CanCall
    /\ \E locations \in LocationLists :
       LET id == Len(promises) + 1
           verified == VerifyLocalLocations(client, locations)
           sent == Send(outbox, failed,
                        [cmd |-> "LocationScouts", locations |-> locations,
                         id |-> id])
           res == IF ~verified.ok THEN verified ELSE sent.res
       IN /\ outbox' = IF verified.ok THEN sent.outbox ELSE outbox
          /\ client' = IF res.ok
                       THEN [client EXCEPT !.location_scout_senders = Append(@, id)]
                       ELSE client
          /\ promises' = Append(promises,
                                IF res.ok THEN Pending("scout")
                                ELSE Resolved(Pending("scout"), Err(Unwrap(res.err)), 0))
          /\ last' = [op |-> "scout_locations", locations |-> locations,
                      ok |-> res.ok, err |-> res.err]
    /\ hist' = [hist EXCEPT !.calls = @ + 1]
    /\ UNCHANGED <<state, cstate, hs, err, transition, messages, wire, failed,
                   pc, events>>
    /\ UNCHANGED <<cachevars, transport>>

\* Client::get
Get ==
    /\ CanCall
    /\ LET id == Len(promises) + 1
           sent == Send(outbox, failed,
                        [cmd |-> "Get", keys |-> <<"k">>, id |-> id])
       IN /\ outbox' = sent.outbox
          /\ client' = IF sent.res.ok
                       THEN [client EXCEPT !.get_senders = Append(@, id)]
                       ELSE client
          /\ promises' = Append(promises,
                                IF sent.res.ok THEN Pending("get")
                                ELSE Resolved(Pending("get"),
                                              Err(Unwrap(sent.res.err)), 0))
          /\ last' = [op |-> "get", ok |-> sent.res.ok, err |-> sent.res.err]
    /\ hist' = [hist EXCEPT !.calls = @ + 1]
    /\ UNCHANGED <<state, cstate, hs, err, transition, messages, wire, failed,
                   pc, events>>
    /\ UNCHANGED <<cachevars, transport>>

\* Client::update_hint; assert_game panics when the teammate's game is in
\* no data package
UpdateHint ==
    /\ CanCall
    /\ \E target \in HintTargets :
       LET slot == target[1]
           location == target[2]
           player == VerifyTeammate(client, slot)
           game == Game(client, Unwrap(player.val).game)
           panic == player.ok /\ game = None
           sent == Send(outbox, failed,
                        [cmd |-> "UpdateHint", player |-> slot,
                         location |-> location])
           res == IF ~player.ok THEN player
                  ELSE IF ~HasLocation(Unwrap(game), location)
                  THEN Err(ErrInvalidLocation(location, Unwrap(game)))
                  ELSE sent.res
       IN IF panic
          THEN /\ pc' = "panicked"
               /\ last' = [op |-> "update_hint", slot |-> slot,
                           location |-> location, ok |-> FALSE, err |-> None]
               /\ UNCHANGED outbox
          ELSE /\ pc' = pc
               /\ outbox' = IF res.ok THEN sent.outbox ELSE outbox
               /\ last' = [op |-> "update_hint", slot |-> slot,
                           location |-> location, ok |-> res.ok, err |-> res.err]
    /\ hist' = [hist EXCEPT !.calls = @ + 1]
    /\ UNCHANGED <<state, cstate, hs, err, transition, client, messages, wire,
                   failed, events, promises>>
    /\ UNCHANGED <<cachevars, transport>>

----------------------------------------------------------------------------
(* The specification.                                                      *)

Next ==
    \/ ServerHandshake
    \/ ServerSend
    \/ ServerAnswer
    \/ TransportFail
    \/ UpdateConnecting
    \/ UpdateDisconnected
    \/ UpdateConnected
    \/ ClientUpdateStep
    \/ MarkChecked
    \/ ScoutLocations
    \/ Get
    \/ UpdateHint

Spec == Init /\ [][Next]_vars

\* The caller drops the receiver of a request that is still pending; it
\* can do so between two calls of the client.
DropReceiver ==
    /\ state = "Connected"
    /\ pc = "idle"
    /\ \E i \in DOMAIN promises :
          /\ promises[i].status = "pending"
          /\ promises' = [promises EXCEPT ![i] = Dropped(@)]
          /\ last' = [op |-> "drop", promise |-> i]
    /\ UNCHANGED <<state, cstate, hs, err, transition, client, messages, wire,
                   failed, outbox, pc, events, hist>>
    /\ UNCHANGED <<cachevars, transport>>

\* the connection with a caller that scouts, gets and may drop the
\* receivers, and a server that answers the requests
DropNext ==
    \/ ServerHandshake
    \/ ServerAnswer
    \/ UpdateConnecting
    \/ UpdateDisconnected
    \/ UpdateConnected
    \/ ClientUpdateStep
    \/ ScoutLocations
    \/ Get
    \/ DropReceiver

DropSpec == Init /\ [][DropNext]_vars

\* The session while the server sends items: what ReceivedItems messages
\* can carry.  Item 10 is an item of this game; location 4 is a location of
\* the game of slot 2, location 1 one of this game; slot 0 is the server,
\* slot 3 plays a game without data package, slot 7 plays nothing.
ItemBatches ==
    { ReceivedItems(0, <<NetworkItem(10, 4, 2)>>),
      ReceivedItems(1, <<NetworkItem(10, 4, 2), NetworkItem(10, 1, 1)>>),
      ReceivedItems(2, <<NetworkItem(10, 4, 2), NetworkItem(99, 4, 2)>>),
      ReceivedItems(3, <<NetworkItem(10, 9, 2)>>),
      ReceivedItems(4, <<NetworkItem(10, -1, 2)>>),
      ReceivedItems(5, <<NetworkItem(10, -2, 1)>>),
      ReceivedItems(0, <<NetworkItem(10, -2, 0)>>),
      ReceivedItems(6, <<NetworkItem(10, -1, 3)>>),
      ReceivedItems(7, <<NetworkItem(10, 4, 7)>>) }
ItemFrames ==
    { TextFrame(<<b>>) : b \in ItemBatches }
    \cup { TextFrame(<<ReceivedItems(0, <<NetworkItem(10, 4, 2)>>),
                       ReceivedItems(1, <<NetworkItem(10, 1, 1)>>)>>) }

\* the server sends a frame of items
ServerItems ==
    /\ state = "Connected"
    /\ pc # "panicked"
    /\ ~failed
    /\ hist.frames < MaxFrames
    /\ Len(wire) < MaxWire
    /\ \E frame \in ItemFrames : wire' = Append(wire, frame)
    /\ hist' = [hist EXCEPT !.frames = @ + 1]
    /\ UNCHANGED <<state, cstate, hs, err, transition, client, messages, failed,
                   outbox, pc, events, promises, last>>
    /\ UNCHANGED <<cachevars, transport>>

ItemsNext ==
    \/ ServerHandshake
    \/ UpdateConnecting
    \/ UpdateDisconnected
    \/ ServerItems
    \/ UpdateConnected
    \/ ClientUpdateStep

ItemsSpec == Init /\ [][ItemsNext]_vars

----------------------------------------------------------------------------
(* The cache on its own: a store and a load running side by side over a    *)
(* filesystem in any condition.                                            *)

\* the filesystem with the given nodes
FilesOf(entries) ==
    [path \in {e[1] : e \in entries} |-> (CHOOSE e \in entries : e[1] = path)[2]]

\* what may lie at G/x.json: a package under its own checksum, a package
\* of another checksum, text that is not JSON, JSON cut short, a directory
NodesAtPackagePath ==
    { FileNode(ToJson(GameData("x", "old"))),
      FileNode(ToJson(GameData("y", "old"))),
      FileNode(<<"#">>),
      FileNode(<<"{", "x">>),
      DirNode }

\* the conditions the cache may be found in
InitialFiles ==
    LET G == { {}, {<<GameDir("G"), FileNode(<<"#">>)>>},
               {<<GameDir("G"), DirNode>>} }
             \cup { {<<GameDir("G"), DirNode>>, <<PackagePath("G", "x"), node>>} :
                        node \in NodesAtPackagePath }
        H == { {}, {<<GameDir("H"), DirNode>>,
                    <<PackagePath("H", "x"), FileNode(ToJson(GameData("x", "old")))>>},
               {<<GameDir("H"), DirNode>>,
                <<PackagePath("H", "x"), FileNode(ToJson(GameData("y", "old")))>>} }
    IN { FilesOf(g \cup h) : g \in G, h \in H }

\* the data packages the caller stores and the checksums it asks for
StoreInputs ==
    { [game \in {"G"} |-> GameData("x", "new")],
      [game \in {"G"} |-> GameData("y", "new")],
      [game \in {"G", "H"} |-> GameData("x", "new")] }
LoadInputs ==
    { [game \in {"G"} |-> "x"],
      [game \in {"G"} |-> "y"],
      [game \in {"G", "H"} |-> "x"] }

CacheInit ==
    /\ state = "Connecting"
    /\ cstate = "SocketConnecting"
    /\ err = None
    /\ hs = NoHandshake
    /\ transition = None
    /\ client = NoClient
    /\ messages = <<>>
    /\ wire = <<>>
    /\ failed = FALSE
    /\ outbox = <<>>
    /\ pc = "idle"
    /\ events = <<>>
    /\ promises = <<>>
    /\ last = [op |-> "new"]
    /\ hist = [hframes |-> 0, frames |-> 0, calls |-> 0, answered |-> 0,
               orderly |-> TRUE]
    /\ files \in InitialFiles
    /\ cache = [store |-> StoreIdle, load |-> LoadIdle, fresh |-> files = NoFiles]
    /\ transport = NoTransport

\* Cache::store_data_packages is called
StoreBegin ==
    /\ cache.store.pc \in {"idle", "done"}
    /\ cache.store.calls < MaxStores
    /\ \E data_packages \in StoreInputs :
          cache' = [cache EXCEPT !.store =
                       [@ EXCEPT !.pc = "next", !.packages = data_packages,
                                 !.todo = DOMAIN data_packages, !.game = "",
                                 !.calls = @ + 1]]
    /\ UNCHANGED files
    /\ UNCHANGED <<session, transport>>

\* One operation on the filesystem of store_data_packages: create_dir_all
\* for the next game, in the order the map yields, then the operations of
\* write_file_atomic: fs::write opening tmp_path and filling it, fs::rename.
StoreStep ==
    /\ cache.store.pc \in {"next", "open", "fill", "rename"}
    /\ LET store == cache.store
           data == store.packages[store.game]
           path == PackagePath(store.game, data.checksum)
           tmp_path == TmpPath(path)
       IN
       CASE store.pc = "next" ->
               IF store.todo = {}
               THEN /\ cache' = [cache EXCEPT !.store.pc = "done",
                                              !.store.completed = @ + 1]
                    /\ UNCHANGED files
               ELSE \E game \in store.todo :
                       LET made == CreateDirAll(files, GameDir(game)) IN
                       /\ files' = made.files
                       /\ cache' = IF made.res.ok
                                   THEN [cache EXCEPT !.store.pc = "open",
                                                      !.store.game = game,
                                                      !.store.todo = @ \ {game}]
                                   ELSE [cache EXCEPT !.store.pc = "done",
                                                      !.store.completed = @ + 1]
         [] store.pc = "open" ->
               LET opened == OpenTruncate(files, tmp_path) IN
               /\ files' = opened.files
               /\ cache' = [cache EXCEPT !.store.pc =
                                IF opened.res.ok THEN "fill" ELSE "next"]
         [] store.pc = "fill" ->
               /\ files' = WriteAll(files, tmp_path, ToJson(data))
               /\ cache' = [cache EXCEPT !.store.pc = "rename"]
         [] OTHER ->
               /\ files' = Rename(files, tmp_path, path).files
               /\ cache' = [cache EXCEPT !.store.pc = "next"]
    /\ UNCHANGED <<session, transport>>

\* Cache::load_data_packages is called
LoadBegin ==
    /\ cache.load.pc \in {"idle", "done"}
    /\ cache.load.calls < MaxLoads
    /\ \E checksums \in LoadInputs :
          cache' = [cache EXCEPT !.load =
                       [@ EXCEPT !.pc = "reading", !.request = checksums,
                                 !.todo = DOMAIN checksums, !.result = NoPackages,
                                 !.since = IF cache.store.pc = "done"
                                           THEN cache.store.completed ELSE 0,
                                 !.calls = @ + 1]]
    /\ UNCHANGED files
    /\ UNCHANGED <<session, transport>>

\* one iteration of the loop of load_data_packages, or its return
LoadStep ==
    /\ cache.load.pc = "reading"
    /\ IF cache.load.todo = {}
       THEN cache' = [cache EXCEPT !.load.pc = "done"]
       ELSE \E game \in cache.load.todo :
               cache' = [cache EXCEPT
                            !.load.result = LoadOne(files, @, game,
                                                    cache.load.request[game]),
                            !.load.todo = @ \ {game}]
    /\ UNCHANGED files
    /\ UNCHANGED <<session, transport>>

CacheNext ==
    \/ StoreBegin
    \/ StoreStep
    \/ LoadBegin
    \/ LoadStep

CacheSpec == CacheInit /\ [][CacheNext]_vars

----------------------------------------------------------------------------
(* The connection options (src/src/connection_options.rs) and the two      *)
(* messages that carry them: Connect, sent by Client::connect, and         *)
(* ConnectUpdate, sent by Client::update_connection.                       *)

\* ItemHandling
ItemHandlingNone ==
    [kind |-> "None", own_world |-> FALSE, starting_inventory |-> FALSE]
OtherWorlds(own_world, starting_inventory) ==
    [kind |-> "OtherWorlds", own_world |-> own_world,
     starting_inventory |-> starting_inventory]
ItemHandlings ==
    {ItemHandlingNone} \cup {OtherWorlds(o, i) : o \in BOOLEAN, i \in BOOLEAN}

\* ItemsHandlingFlags: a u8 of flags
U8 == 256
OTHER_WORLDS == 1
OWN_WORLD == 3
STARTING_INVENTORY == 5

\* a | b on the bits of two naturals
RECURSIVE BitOr(_, _)
BitOr(a, b) ==
    IF a = 0 THEN b
    ELSE IF b = 0 THEN a
    ELSE (IF a % 2 = 1 \/ b % 2 = 1 THEN 1 ELSE 0) + 2 * BitOr(a \div 2, b \div 2)

\* ItemsHandlingFlags::empty and ItemsHandlingFlags::insert
FlagsEmpty == 0
FlagsInsert(flags, other) == BitOr(flags, other) % U8

\* From<ItemHandling> for ItemsHandlingFlags
ItemsHandlingFlagsFrom(value) ==
    IF value.kind = "OtherWorlds"
    THEN LET own == IF value.own_world
                    THEN FlagsInsert(FlagsEmpty, OWN_WORLD) ELSE FlagsEmpty
         IN IF value.starting_inventory
            THEN FlagsInsert(own, STARTING_INVENTORY) ELSE own
    ELSE FlagsEmpty

\* From<ItemsHandlingFlags> for u8, by which the flags are serialized
FlagsBits(flags) == flags % U8

\* Connect and ConnectUpdate as they are written to the socket
Connect(game, item_handling) ==
    [cmd |-> "Connect", game |-> game,
     items_handling |-> FlagsBits(ItemsHandlingFlagsFrom(item_handling))]
ConnectUpdate(item_handling, tags) ==
    [cmd |-> "ConnectUpdate",
     items_handling |-> IF item_handling = None THEN None
                        ELSE Some(FlagsBits(ItemsHandlingFlagsFrom(
                                 Unwrap(item_handling)))),
     tags |-> tags]

\* the tags the caller passes to update_connection
TagLists == { None, Some(<<"DeathLink">>) }

\* Client::connect with the options the caller built (ConnectionOptions::
\* new or receive_items), against a server that answers RoomInfo,
\* DataPackage and Connected
ClientConnectCall ==
    /\ state = "Connecting"
    /\ outbox = <<>>
    /\ \E item_handling \in ItemHandlings :
          /\ outbox' = <<ClientGetDataPackage, Connect(ThisGame, item_handling)>>
          /\ last' = [op |-> "connect", item_handling |-> Some(item_handling),
                      tags |-> None]
    /\ state' = "Connected"
    /\ cstate' = "None"
    /\ client' = Unwrap(ClientNew(ThisGame, RoomInfo, DataPackage({"G", "H"}),
                                  ConnectedGood).val)
    /\ UNCHANGED <<hs, err, transition, messages, wire, failed, pc, events,
                   promises, hist>>
    /\ UNCHANGED <<cachevars, transport>>

\* Client::update_connection
UpdateConnection ==
    /\ state = "Connected"
    /\ Len(outbox) < 2 + MaxUpdates
    /\ \E item_handling \in {None} \cup {Some(h) : h \in ItemHandlings},
          tags \in TagLists :
          /\ outbox' = Send(outbox, failed, ConnectUpdate(item_handling, tags)).outbox
          /\ last' = [op |-> "update_connection", item_handling |-> item_handling,
                      tags |-> tags]
    /\ UNCHANGED <<state, cstate, hs, err, transition, client, messages, wire,
                   failed, pc, events, promises, hist>>
    /\ UNCHANGED <<cachevars, transport>>

OptionsInit ==
    /\ state = "Connecting"
    /\ cstate = "SocketConnecting"
    /\ err = None
    /\ hs = NoHandshake
    /\ transition = None
    /\ client = NoClient
    /\ messages = <<>>
    /\ wire = <<>>
    /\ failed = FALSE
    /\ outbox = <<>>
    /\ pc = "idle"
    /\ events = <<>>
    /\ promises = <<>>
    /\ last = [op |-> "new"]
    /\ hist = [hframes |-> 0, frames |-> 0, calls |-> 0, answered |-> 0,
               orderly |-> TRUE]
    /\ files = NoFiles
    /\ cache = [store |-> StoreIdle, load |-> LoadIdle, fresh |-> TRUE]
    /\ transport = NoTransport

OptionsNext ==
    \/ ClientConnectCall
    \/ UpdateConnection

OptionsSpec == OptionsInit /\ [][OptionsNext]_vars

----------------------------------------------------------------------------
(* The room: the construction of the session from a Connected message and  *)
(* the lookups of its groups and of its locations (src/src/client.rs,      *)
(* src/src/data/group.rs).                                                 *)

\* the highest team a caller asks about
MaxTeam == 2

\* two teams of two slots each, and a multiworld whose second team lacks
\* slot 2
TwoTeams ==
    <<NetworkPlayer(0, 1, "a1", "n1"), NetworkPlayer(0, 2, "a2", "n2"),
      NetworkPlayer(1, 1, "b1", "m1"), NetworkPlayer(1, 2, "b2", "m2")>>
UnevenTeams ==
    <<NetworkPlayer(0, 1, "a1", "n1"), NetworkPlayer(0, 2, "a2", "n2"),
      NetworkPlayer(1, 1, "b1", "m1")>>
\* slots 1 and 2 and the item link group 4 with the given members
GroupedSlots(members) ==
    (1 :> NetworkSlot("n1", "G", "Player", <<>>)) @@
    (2 :> NetworkSlot("n2", "H", "Player", <<>>)) @@
    (4 :> NetworkSlot("link", "G", "Group", members))

\* the Connected messages a session is built from
Rooms ==
    { Connected(0, 1, TwoTeams, <<1, 2>>, <<3>>, GroupedSlots(<<1, 2>>), 0),
      Connected(0, 1, TwoTeams, <<1, 2>>, <<>>, GroupedSlots(<<1, 2>>), 0),
      Connected(0, 1, UnevenTeams, <<1, 2>>, <<3>>, GroupedSlots(<<1, 2>>), 0),
      Connected(1, 1, UnevenTeams, <<3>>, <<1, 2>>, GroupedSlots(<<2>>), 0),
      Connected(0, 1, TwoTeams, <<1, 2>>, <<3>>, GroupedSlots(<<1, 5>>), 0),
      ConnectedGood }
\* the location ids a caller asks about
LocalIds == {1, 2, 3, 9}
\* the RoomUpdates of the room: checked locations only
RoomChecks ==
    { RoomUpdate(None, None, None, None, None, None, Some(ids)) :
          ids \in {<<1>>, <<3>>, <<2, 1>>, <<9>>} }

\* Client::player_arc
PlayerArc(c, team, slot) ==
    IF <<team, slot>> \in DOMAIN c.players THEN Ok(c.players[<<team, slot>>])
    ELSE Err(ErrMissingPlayer(team, slot))

\* Group::hydrate: the members are looked up on the team; unwrap() panics
\* on a member the players map does not hold
GroupHydrate(network, team, c) ==
    LET members == network.group_members
        unresolved == {i \in DOMAIN members : ~PlayerArc(c, team, members[i]).ok}
    IN IF unresolved # {} THEN [panic |-> TRUE, group |-> None]
       ELSE [panic |-> FALSE,
             group |-> Some([name |-> network.name, game |-> network.game,
                             members |-> [i \in DOMAIN members |->
                                 Unwrap(PlayerArc(c, team, members[i]).val)]])]

\* the groups an iterator over c.groups yields on a team, once consumed
HydrateGroups(c, team) ==
    LET hydrated == {GroupHydrate(g, team, c) : g \in c.groups}
    IN IF \E h \in hydrated : h.panic THEN [panic |-> TRUE, groups |-> None]
       ELSE [panic |-> FALSE, groups |-> Some({Unwrap(h.group) : h \in hydrated})]

\* Client::groups
Groups(c, team) ==
    IF team > c.teams THEN [panic |-> FALSE, groups |-> None]
    ELSE HydrateGroups(c, team)
\* Client::teammate_groups
TeammateGroups(c) == HydrateGroups(c, c.player_key[1])

\* Client::is_local_location_checked
IsLocalLocationChecked(c, id) ==
    IF id \in DOMAIN c.local_locations_checked
    THEN [panic |-> FALSE, checked |-> Some(c.local_locations_checked[id])]
    ELSE [panic |-> TRUE, checked |-> None]

\* Client::new on the Connected message of the room
ClientNewCall ==
    /\ state = "Connecting"
    /\ \E connected \in Rooms :
          LET new == ClientNew(ThisGame, RoomInfo, DataPackage({"G", "H"}), connected)
          IN /\ state' = IF new.ok THEN "Connected" ELSE "Disconnected"
             /\ client' = IF new.ok THEN Unwrap(new.val) ELSE NoClient
             /\ err' = new.err
             /\ last' = [op |-> "new", connected |-> connected]
    /\ cstate' = "None"
    /\ UNCHANGED <<hs, transition, messages, wire, failed, outbox, pc, events,
                   promises, hist>>
    /\ UNCHANGED <<cachevars, transport>>

\* a call of Client::groups whose iterator is consumed
GroupsCall ==
    /\ state = "Connected"
    /\ pc = "idle"
    /\ \E team \in 0..MaxTeam :
          LET r == Groups(client, team)
          IN /\ pc' = IF r.panic THEN "panicked" ELSE pc
             /\ last' = [op |-> "groups", team |-> team, groups |-> r.groups]
    /\ UNCHANGED <<state, cstate, hs, err, transition, client, messages, wire,
                   failed, outbox, events, promises, hist>>
    /\ UNCHANGED <<cachevars, transport>>

\* a call of Client::teammate_groups whose iterator is consumed
TeammateGroupsCall ==
    /\ state = "Connected"
    /\ pc = "idle"
    /\ LET r == TeammateGroups(client)
       IN /\ pc' = IF r.panic THEN "panicked" ELSE pc
          /\ last' = [op |-> "teammate_groups", team |-> client.player_key[1],
                      groups |-> r.groups]
    /\ UNCHANGED <<state, cstate, hs, err, transition, client, messages, wire,
                   failed, outbox, events, promises, hist>>
    /\ UNCHANGED <<cachevars, transport>>

\* a call of Client::is_local_location_checked
IsLocalLocationCheckedCall ==
    /\ state = "Connected"
    /\ pc = "idle"
    /\ \E id \in LocalIds :
          LET r == IsLocalLocationChecked(client, id)
          IN /\ pc' = IF r.panic THEN "panicked" ELSE pc
             /\ last' = [op |-> "is_local_location_checked", id |-> id,
                         checked |-> r.checked]
    /\ UNCHANGED <<state, cstate, hs, err, transition, client, messages, wire,
                   failed, outbox, events, promises, hist>>
    /\ UNCHANGED <<cachevars, transport>>

\* Client::update_room on a RoomUpdate of the room
RoomUpdateCall ==
    /\ state = "Connected"
    /\ pc = "idle"
    /\ \E u \in RoomChecks :
          LET r == UpdateRoom(client, u)
          IN /\ client' = r.client
             /\ pc' = IF r.panic THEN "panicked" ELSE pc
             /\ last' = [op |-> "update_room", msg |-> u, res |-> r.res]
    /\ UNCHANGED <<state, cstate, hs, err, transition, messages, wire,
                   failed, outbox, events, promises, hist>>
    /\ UNCHANGED <<cachevars, transport>>

RoomNext ==
    \/ ClientNewCall
    \/ GroupsCall
    \/ TeammateGroupsCall
    \/ IsLocalLocationCheckedCall
    \/ RoomUpdateCall

RoomSpec == OptionsInit /\ [][RoomNext]_vars

----------------------------------------------------------------------------
(* The transport while it connects: TCP, TLS for a wss URL, then the       *)
(* WebSocket handshake (src/src/connection/socket.rs,                      *)
(* src/src/connection/non_blocking_web_socket.rs,                          *)
(* src/src/connection/threaded_web_socket.rs).                             *)

\* how often a handshake may be found not ready
MaxPolls == 2

\* the default Archipelago port
DEFAULT_PORT == 38281

\* the implementations of the transport
Transports == {"MidHandshakeSocket", "NonBlockingWebSocket", "ThreadedWebSocket"}
\* tungstenite::client::uri_mode of the request: ws or wss
Modes == {"Plain", "Tls"}
\* the port the URL of the request names, if any
RequestPorts == {None, Some(1234)}

\* tungstenite::Error::Io, ::Tls and the failure of the WebSocket handshake,
\* each wrapped in Error::WebSocket
ErrIo == [type |-> "WebSocket", kind |-> "Io"]
ErrTls == [type |-> "WebSocket", kind |-> "Tls"]
ErrHandshake == [type |-> "WebSocket", kind |-> "Handshake"]

\* the port the transport connects to
PortOf(impl, mode, port) ==
    IF IsSome(port) THEN Unwrap(port)
    ELSE IF impl = "MidHandshakeSocket" THEN (IF mode = "Tls" THEN 443 ELSE 80)
    ELSE DEFAULT_PORT

\* a transport before its connect
NewTransport(impl, mode, port) ==
    [impl |-> impl, mode |-> mode, port |-> PortOf(impl, mode, port),
     stage |-> "New", stream |-> None, conns |-> <<>>, polls |-> 0,
     error |-> None]

\* the connect ends with an error
TransportFailure(t, e) == [t EXCEPT !.stage = "Failed", !.error = Some(e)]
\* the connect waits for the peer
TransportWouldBlock(t, stage) == [t EXCEPT !.stage = stage, !.polls = @ + 1]
\* connect_tcp / TcpStream::connect: a TCP connection to the host and port
ConnectTcp(t) == [t EXCEPT !.conns = Append(@, t.port)]

\* the outcomes of one step of the WebSocket handshake
WsOutcomes(t) ==
    {"Ok", "Failure"}
    \cup (IF t.polls < MaxPolls THEN {"Interrupted"} ELSE {})
    \cup (IF t.impl = "NonBlockingWebSocket" /\ t.polls < MaxPolls
          THEN {"Unreadable"} ELSE {})
\* the outcomes of one step of the TLS handshake
TlsOutcomes(t) ==
    {"Ok", "Failure"}
    \cup (IF t.impl # "ThreadedWebSocket" /\ t.polls < MaxPolls
          THEN {"WouldBlock"} ELSE {})
    \cup (IF t.impl = "NonBlockingWebSocket" /\ t.polls < MaxPolls
          THEN {"Unreadable"} ELSE {})
\* the outcomes of a TCP connect
TcpOutcomes == {"Ok", "Err"}

\* ClientHandshake::start on the stream and one handshake.handshake()
WsHandshake(t, stream, ws) ==
    LET u == [t EXCEPT !.stream = Some(stream)]
    IN CASE ws = "Ok" -> [u EXCEPT !.stage = "Open"]
         [] ws = "Interrupted" -> TransportWouldBlock(u, "WsConnecting")
         [] ws = "Unreadable" -> TransportFailure(u, ErrIo)
         [] OTHER -> TransportFailure(u, ErrHandshake)

\* MidHandshakeSocket::handle_tls_handshake
HandleTlsHandshake(t, tls, ws) ==
    CASE tls = "Ok" -> WsHandshake(t, "NativeTls", ws)
      [] tls = "Failure" -> TransportFailure(t, ErrTls)
      [] OTHER -> TransportWouldBlock(t, "TlsConnecting")

\* the Mode::Tls arm of NonBlockingWebSocket::connect and of
\* ThreadedWebSocketWorker::connect: try_tls, and on a TLS error a second
\* connect_tcp, before the WebSocket handshake starts
TryTlsOrPlain(t, tls, tcp) ==
    CASE tls = "Ok" -> [t EXCEPT !.stage = "WsConnecting", !.stream = Some("NativeTls")]
      [] tls = "Failure" ->
            IF tcp = "Ok"
            THEN [ConnectTcp(t) EXCEPT !.stage = "WsConnecting",
                                       !.stream = Some("Plain")]
            ELSE TransportFailure(t, ErrIo)
      [] tls = "Unreadable" -> TransportFailure(t, ErrIo)
      [] OTHER -> TransportWouldBlock(t, "TlsConnecting")

\* Socket::connect, and the start of NonBlockingWebSocket::connect and of
\* ThreadedWebSocketWorker::connect: the TCP connection
TransportConnect ==
    /\ transport.stage = "New"
    /\ \E tcp \in TcpOutcomes :
          /\ transport' =
                IF tcp = "Err" THEN TransportFailure(transport, ErrIo)
                ELSE IF transport.impl = "MidHandshakeSocket"
                THEN [ConnectTcp(transport) EXCEPT !.stage = "TcpConnecting"]
                ELSE IF transport.mode = "Plain"
                THEN [ConnectTcp(transport) EXCEPT !.stage = "WsConnecting",
                                                   !.stream = Some("Plain")]
                ELSE [ConnectTcp(transport) EXCEPT !.stage = "TlsConnecting"]
          /\ last' = [op |-> "connect", tcp |-> Some(tcp), tls |-> None, ws |-> None]
    /\ UNCHANGED <<state, cstate, hs, err, transition, client, messages, wire,
                   failed, outbox, pc, events, promises, hist>>
    /\ UNCHANGED cachevars

\* MidHandshakeSocket::handshake while TcpConnecting
TransportTcpConnecting ==
    /\ transport.stage = "TcpConnecting"
    /\ \E poll \in {"Error", "Writable"}
                 \cup (IF transport.polls < MaxPolls THEN {"NoEvents"} ELSE {}),
          tls \in TlsOutcomes(transport), ws \in WsOutcomes(transport) :
          LET plain == poll = "Writable" /\ transport.mode = "Plain"
              secure == poll = "Writable" /\ transport.mode = "Tls"
          IN /\ transport' =
                   CASE poll = "NoEvents" -> TransportWouldBlock(transport, "TcpConnecting")
                     [] poll = "Error" -> TransportFailure(transport, ErrIo)
                     [] plain -> WsHandshake(transport, "Plain", ws)
                     [] OTHER -> HandleTlsHandshake(transport, tls, ws)
             /\ last' = [op |-> "handshake", tcp |-> Some(IF poll = "Error" THEN "Err" ELSE poll),
                         tls |-> IF secure THEN Some(tls) ELSE None,
                         ws |-> IF plain \/ (secure /\ tls = "Ok") THEN Some(ws) ELSE None]
    /\ UNCHANGED <<state, cstate, hs, err, transition, client, messages, wire,
                   failed, outbox, pc, events, promises, hist>>
    /\ UNCHANGED cachevars

\* the TLS handshake: MidHandshakeSocket::handshake while TlsConnecting, and
\* try_tls with what follows it in the two connect functions
TransportTlsConnecting ==
    /\ transport.stage = "TlsConnecting"
    /\ \E tls \in TlsOutcomes(transport), tcp \in TcpOutcomes,
          ws \in WsOutcomes(transport) :
          LET mid == transport.impl = "MidHandshakeSocket"
          IN /\ transport' = IF mid THEN HandleTlsHandshake(transport, tls, ws)
                             ELSE TryTlsOrPlain(transport, tls, tcp)
             /\ last' = [op |-> "tls",
                         tcp |-> IF ~mid /\ tls = "Failure" THEN Some(tcp) ELSE None,
                         tls |-> Some(tls),
                         ws |-> IF mid /\ tls = "Ok" THEN Some(ws) ELSE None]
    /\ UNCHANGED <<state, cstate, hs, err, transition, client, messages, wire,
                   failed, outbox, pc, events, promises, hist>>
    /\ UNCHANGED cachevars

\* the WebSocket handshake
TransportWsConnecting ==
    /\ transport.stage = "WsConnecting"
    /\ \E ws \in WsOutcomes(transport) :
          /\ transport' = WsHandshake(transport, Unwrap(transport.stream), ws)
          /\ last' = [op |-> "ws", tcp |-> None, tls |-> None, ws |-> Some(ws)]
    /\ UNCHANGED <<state, cstate, hs, err, transition, client, messages, wire,
                   failed, outbox, pc, events, promises, hist>>
    /\ UNCHANGED cachevars

TransportInit ==
    /\ state = "Connecting"
    /\ cstate = "SocketConnecting"
    /\ err = None
    /\ hs = NoHandshake
    /\ transition = None
    /\ client = NoClient
    /\ messages = <<>>
    /\ wire = <<>>
    /\ failed = FALSE
    /\ outbox = <<>>
    /\ pc = "idle"
    /\ events = <<>>
    /\ promises = <<>>
    /\ last = [op |-> "new"]
    /\ hist = [hframes |-> 0, frames |-> 0, calls |-> 0, answered |-> 0,
               orderly |-> TRUE]
    /\ files = NoFiles
    /\ cache = [store |-> StoreIdle, load |-> LoadIdle, fresh |-> TRUE]
    /\ transport \in {NewTransport(impl, mode, port) :
                          impl \in Transports, mode \in Modes, port \in RequestPorts}

TransportNext ==
    \/ TransportConnect
    \/ TransportTcpConnecting
    \/ TransportTlsConnecting
    \/ TransportWsConnecting

TransportSpec == TransportInit /\ [][TransportNext]_vars

----------------------------------------------------------------------------
(* The handshake against a server that keeps to the protocol, with a       *)
(* caller that keeps calling update().                                     *)

\* the frame such a server owes the client: RoomInfo on connection, a
\* DataPackage for a GetDataPackage, a Connected the session accepts for a
\* Connect
Greetings ==
    CASE hist.hframes = 0 -> {TextFrame(<<RoomInfo>>)}
      [] hist.hframes = 1 /\ Len(outbox) = 1 ->
            {TextFrame(<<DataPackage(games)>>) : games \in {{"G", "H"}, {"G"}}}
      [] hist.hframes = 2 /\ Len(outbox) = 2 /\ cstate = "ApAwaitingConnected" ->
            {TextFrame(<<c>>) : c \in
                {r \in Rooms : ClientNew(ThisGame, Unwrap(hs.room_info),
                                         Unwrap(hs.data_package), r).ok}}
      [] OTHER -> {}

\* the server sends the frame it owes
ServerGreets ==
    /\ state = "Connecting"
    /\ Len(wire) < MaxWire
    /\ \E frame \in Greetings : wire' = Append(wire, frame)
    /\ hist' = [hist EXCEPT !.hframes = @ + 1]
    /\ UNCHANGED <<state, cstate, hs, err, transition, client, messages, failed,
                   outbox, pc, events, promises, last>>
    /\ UNCHANGED <<cachevars, transport>>

\* the server sends a ping, which the transport answers without handing it
\* to the client
ServerPings ==
    /\ state = "Connecting"
    /\ hist.frames < MaxFrames
    /\ Len(wire) < MaxWire
    /\ wire' = Append(wire, OtherFrame)
    /\ hist' = [hist EXCEPT !.frames = @ + 1]
    /\ UNCHANGED <<state, cstate, hs, err, transition, client, messages, failed,
                   outbox, pc, events, promises, last>>
    /\ UNCHANGED <<cachevars, transport>>

GreetNext ==
    \/ ServerGreets
    \/ ServerPings
    \/ UpdateConnecting
    \/ UpdateDisconnected
    \/ UpdateConnected
    \/ ClientUpdateStep

\* the caller calls update() again and again, and the server answers
GreetSpec ==
    /\ Init
    /\ [][GreetNext]_vars
    /\ WF_vars(UpdateConnecting)
    /\ WF_vars(ServerGreets)

----------------------------------------------------------------------------
(* The worker-thread transport (src/src/connection/threaded_web_socket.rs): *)
(* the main side, the worker's run loop, two channels between them and the  *)
(* blocking socket with its read timeout.                                   *)

\* messages the main thread sends, frames the server sends, and results
\* the main thread leaves unread in the channel
MaxSends == 3
MaxServed == 2
MaxBacklog == 3

\* a frame or an error as the worker forwards it
Forwarded(frame) == [ok |-> TRUE, frame |-> frame]
ForwardedErr == [ok |-> FALSE, frame |-> 0]

\* The mutation of the channel that hands out the newest message first.
ChannelTryRecvLast(queue, closed) ==
    IF queue # <<>>
    THEN [tag |-> "Ok", val |-> queue[Len(queue)],
          rest |-> SubSeq(queue, 1, Len(queue) - 1)]
    ELSE [tag |-> IF closed THEN "Closed" ELSE "Empty", val |-> 0, rest |-> queue]

\* channel::Receiver::try_recv: the oldest message; Closed only once the
\* channel is closed and empty
ChannelTryRecv(queue, closed) ==
    IF queue # <<>>
    THEN [tag |-> "Ok", val |-> Head(queue), rest |-> Tail(queue)]
    ELSE [tag |-> IF closed THEN "Closed" ELSE "Empty", val |-> 0, rest |-> queue]

\* channel::Sender::send_blocking on an unbounded channel: fails when the
\* other end is gone
ChannelSend(queue, closed, v) ==
    IF closed THEN [ok |-> FALSE, queue |-> queue]
              ELSE [ok |-> TRUE, queue |-> Append(queue, v)]

\* ThreadedWebSocket and its worker once the connection is made
NewWorker ==
    [impl |-> "Threaded", wpc |-> "start", alive |-> TRUE, sock |-> "healthy",
     toWorker |-> <<>>, toMain |-> <<>>, inbox |-> <<>>,
     sent |-> <<>>, written |-> <<>>, served |-> 0, got |-> <<>>,
     res |-> "none", rounds |-> 0, pending |-> 0]

\* the part of run before the loop: set_read_timeout
WorkerStart(t, ok) ==
    IF ok THEN [t EXCEPT !.wpc = "take"]
    ELSE [t EXCEPT !.wpc = "done",
                   !.toMain = ChannelSend(@, ~t.alive, ForwardedErr).queue]

\* The mutation of the loop head that goes on reading when the channel is
\* closed.
WorkerTakeDeaf(t) ==
    LET r == ChannelTryRecv(t.toWorker, ~t.alive)
        begun == [t EXCEPT !.rounds = IF t.alive THEN @ ELSE @ + 1]
    IN IF r.tag = "Ok"
       THEN IF t.sock = "healthy"
            THEN [begun EXCEPT !.toWorker = r.rest, !.wpc = "read",
                               !.written = Append(@, r.val)]
            ELSE [begun EXCEPT !.toWorker = r.rest, !.wpc = "read",
                               !.toMain = ChannelSend(@, ~t.alive, ForwardedErr).queue]
       ELSE [begun EXCEPT !.wpc = "read"]

\* the first half of an iteration of run: at most one outgoing message is
\* taken and written; a write error is forwarded and the loop goes on; a
\* closed channel ends the loop
WorkerTake(t) ==
    LET r == ChannelTryRecv(t.toWorker, ~t.alive)
        begun == [t EXCEPT !.rounds = IF t.alive THEN @ ELSE @ + 1]
    IN CASE r.tag = "Ok" ->
              IF t.sock = "healthy"
              THEN [begun EXCEPT !.toWorker = r.rest, !.wpc = "read",
                                 !.written = Append(@, r.val)]
              ELSE [begun EXCEPT !.toWorker = r.rest, !.wpc = "read",
                                 !.toMain = ChannelSend(@, ~t.alive, ForwardedErr).queue]
         [] r.tag = "Empty" -> [begun EXCEPT !.wpc = "read"]
         [] OTHER -> [begun EXCEPT !.wpc = "done"]

\* the second half: one read of the socket, which blocks for READ_TIMEOUT
\* at most; ConnectionClosed ends the loop, a timeout goes round, and a
\* frame or another error is forwarded, ending the loop when the main side
\* is gone
WorkerRead(t) ==
    LET Forward(v) ==
            LET s == ChannelSend(t.toMain, ~t.alive, v)
            IN IF s.ok THEN [t EXCEPT !.toMain = s.queue, !.wpc = "take"]
                       ELSE [t EXCEPT !.wpc = "done"]
    IN CASE t.sock = "closed" -> [t EXCEPT !.wpc = "done"]
         [] t.sock = "erring" -> Forward(ForwardedErr)
         [] t.inbox # <<>> ->
               [Forward(Forwarded(Head(t.inbox))) EXCEPT !.inbox = Tail(@)]
         [] OTHER -> [t EXCEPT !.wpc = "take"]

\* ThreadedWebSocket::send
ThreadedSend(t, message) ==
    LET s == ChannelSend(t.toWorker, t.wpc = "done", message)
    IN IF s.ok THEN [t EXCEPT !.toWorker = s.queue, !.sent = Append(@, message),
                              !.res = "Ok"]
               ELSE [t EXCEPT !.res = "ThreadKilled"]

\* ThreadedWebSocket::try_recv
ThreadedTryRecv(t) ==
    LET r == ChannelTryRecv(t.toMain, t.wpc = "done")
    IN CASE r.tag = "Ok" ->
              [t EXCEPT !.toMain = r.rest,
                        !.got = IF r.val.ok THEN Append(@, r.val.frame) ELSE @,
                        !.res = IF r.val.ok THEN "Some" ELSE "Err"]
         [] r.tag = "Empty" -> [t EXCEPT !.res = "None"]
         [] OTHER -> [t EXCEPT !.res = "ThreadKilled"]

\* dropping the ThreadedWebSocket drops its sender and its receiver; the
\* messages not yet taken by the worker stay in their channel
ThreadedDrop(t) ==
    [t EXCEPT !.alive = FALSE, !.toMain = <<>>, !.pending = Len(t.toWorker),
              !.res = "none"]

\* one step of the worker thread
WorkerRun ==
    /\ transport.impl = "Threaded"
    /\ transport.wpc # "done"
    /\ \/ /\ transport.wpc = "start"
          /\ \E ok \in BOOLEAN : transport' = WorkerStart(transport, ok)
       \/ /\ transport.wpc = "take"
          /\ transport' = WorkerTake(transport)
       \/ /\ transport.wpc = "read"
          /\ transport' = WorkerRead(transport)
    /\ Len(transport'.toMain) <= MaxBacklog
    /\ UNCHANGED <<session, cachevars>>

MainSendCall ==
    /\ transport.impl = "Threaded"
    /\ transport.alive
    /\ Len(transport.sent) < MaxSends
    /\ transport' = ThreadedSend(transport, Len(transport.sent) + 1)
    /\ UNCHANGED <<session, cachevars>>

MainTryRecvCall ==
    /\ transport.impl = "Threaded"
    /\ transport.alive
    /\ transport' = ThreadedTryRecv(transport)
    /\ UNCHANGED <<session, cachevars>>

MainDropCall ==
    /\ transport.impl = "Threaded"
    /\ transport.alive
    /\ transport' = ThreadedDrop(transport)
    /\ UNCHANGED <<session, cachevars>>

\* the server sends a frame
ServerFrame ==
    /\ transport.impl = "Threaded"
    /\ transport.sock = "healthy"
    /\ transport.served < MaxServed
    /\ transport' = [transport EXCEPT !.served = @ + 1,
                                      !.inbox = Append(@, transport.served + 1)]
    /\ UNCHANGED <<session, cachevars>>

\* the socket starts returning errors, or the connection is closed
SocketBreaks ==
    /\ transport.impl = "Threaded"
    /\ transport.sock = "healthy"
    /\ \E how \in {"erring", "closed"} : transport' = [transport EXCEPT !.sock = how]
    /\ UNCHANGED <<session, cachevars>>

WorkerInit ==
    /\ state = "Connecting"
    /\ cstate = "SocketConnecting"
    /\ err = None
    /\ hs = NoHandshake
    /\ transition = None
    /\ client = NoClient
    /\ messages = <<>>
    /\ wire = <<>>
    /\ failed = FALSE
    /\ outbox = <<>>
    /\ pc = "idle"
    /\ events = <<>>
    /\ promises = <<>>
    /\ last = [op |-> "new"]
    /\ hist = [hframes |-> 0, frames |-> 0, calls |-> 0, answered |-> 0,
               orderly |-> TRUE]
    /\ files = NoFiles
    /\ cache = [store |-> StoreIdle, load |-> LoadIdle, fresh |-> TRUE]
    /\ transport = NewWorker

WorkerNext ==
    \/ WorkerRun
    \/ MainSendCall
    \/ MainTryRecvCall
    \/ MainDropCall
    \/ ServerFrame
    \/ SocketBreaks

\* the worker is a thread of its own and its read returns within
\* READ_TIMEOUT: it keeps taking steps
WorkerSpec == WorkerInit /\ [][WorkerNext]_vars /\ WF_vars(WorkerRun)

----------------------------------------------------------------------------
(* The builder of the death link options                                   *)
(* (src/src/client/death_link_options.rs).                                 *)

\* the arguments a caller gives the builder
GameSets == {{"G"}, {"G", "H"}}
SlotSets == {{1}, {1, 2}}
TagSets == {{"T"}}
Times == {1, 2}
Names == {"n1", "n2"}
Causes == {"c1", "c2"}

\* DeathLinkOptions::new: Default::default()
DeathLinkOptionsNew ==
    [games |-> None, slots |-> None, tags |-> None, time |-> None,
     source |-> None, cause |-> None]

\* DeathLinkOptions::games, slots, tags and time
OptionsGames(o, games) == [o EXCEPT !.games = Some(games)]
OptionsSlots(o, slots) == [o EXCEPT !.slots = Some(slots)]
OptionsTags(o, tags) == [o EXCEPT !.tags = Some(tags)]
OptionsTime(o, time) == [o EXCEPT !.time = Some(time)]
\* DeathLinkOptions::source: the assignment is to self.cause
OptionsSource(o, source) == [o EXCEPT !.cause = Some(source)]
\* DeathLinkOptions::cause
OptionsCause(o, cause) == [o EXCEPT !.cause = Some(cause)]

\* a call of one method of the builder on the options built so far
BuilderCall(op, arg, options) ==
    /\ last.op \in {"options", "games", "slots", "tags", "time", "source", "cause"}
    /\ last' = [op |-> op, arg |-> arg, options |-> options]
    /\ UNCHANGED <<state, cstate, hs, err, transition, client, messages, wire,
                   failed, outbox, pc, events, promises, hist>>
    /\ UNCHANGED <<cachevars, transport>>

GamesCall == \E a \in GameSets : BuilderCall("games", a, OptionsGames(last.options, a))
SlotsCall == \E a \in SlotSets : BuilderCall("slots", a, OptionsSlots(last.options, a))
TagsCall == \E a \in TagSets : BuilderCall("tags", a, OptionsTags(last.options, a))
TimeCall == \E a \in Times : BuilderCall("time", a, OptionsTime(last.options, a))
SourceCall == \E a \in Names : BuilderCall("source", a, OptionsSource(last.options, a))
CauseCall == \E a \in Causes : BuilderCall("cause", a, OptionsCause(last.options, a))

BuilderInit ==
    /\ state = "Connecting"
    /\ cstate = "SocketConnecting"
    /\ err = None
    /\ hs = NoHandshake
    /\ transition = None
    /\ client = NoClient
    /\ messages = <<>>
    /\ wire = <<>>
    /\ failed = FALSE
    /\ outbox = <<>>
    /\ pc = "idle"
    /\ events = <<>>
    /\ promises = <<>>
    /\ last = [op |-> "options", arg |-> None, options |-> DeathLinkOptionsNew]
    /\ hist = [hframes |-> 0, frames |-> 0, calls |-> 0, answered |-> 0,
               orderly |-> TRUE]
    /\ files = NoFiles
    /\ cache = [store |-> StoreIdle, load |-> LoadIdle, fresh |-> TRUE]
    /\ transport = NoTransport

BuilderNext ==
    \/ GamesCall
    \/ SlotsCall
    \/ TagsCall
    \/ TimeCall
    \/ SourceCall
    \/ CauseCall

BuilderSpec == BuilderInit /\ [][BuilderNext]_vars

----------------------------------------------------------------------------
(* Requests over a socket that does not block: the write of a request is   *)
(* buffered and then flushed (src/src/connection/socket.rs,                *)
(* src/src/connection/non_blocking_web_socket.rs).                         *)

\* what the flush of a socket that does not block reports
Flushes == {"Ok", "WouldBlock"}

\* send: inner.send(message)?; inner.flush()?  The message is in the write
\* buffer once the write has taken it; a flush that would block reports an
\* error and leaves the message there, to be written by a later read or
\* flush
SendFlushing(out, f, msg, flush) ==
    IF f THEN [res |-> Err(ErrWebSocket), outbox |-> out]
    ELSE IF flush = "WouldBlock"
    THEN [res |-> Err(ErrIo), outbox |-> Append(out, msg)]
    ELSE [res |-> Ok(<<>>), outbox |-> Append(out, msg)]

\* Client::scout_locations over such a socket
ScoutLocationsFlushing ==
    /\ CanCall
    /\ \E locations \in LocationLists, flush \in Flushes :
       LET id == Len(promises) + 1
           verified == VerifyLocalLocations(client, locations)
           sent == SendFlushing(outbox, failed,
                                [cmd |-> "LocationScouts", locations |-> locations,
                                 id |-> id], flush)
           res == IF ~verified.ok THEN verified ELSE sent.res
       IN /\ outbox' = IF verified.ok THEN sent.outbox ELSE outbox
          /\ client' = IF res.ok
                       THEN [client EXCEPT !.location_scout_senders = Append(@, id)]
                       ELSE client
          /\ promises' = Append(promises,
                                IF res.ok THEN Pending("scout")
                                ELSE Resolved(Pending("scout"), Err(Unwrap(res.err)), 0))
          /\ last' = [op |-> "scout_locations", locations |-> locations,
                      ok |-> res.ok, err |-> res.err]
    /\ hist' = [hist EXCEPT !.calls = @ + 1]
    /\ UNCHANGED <<state, cstate, hs, err, transition, messages, wire, failed,
                   pc, events>>
    /\ UNCHANGED <<cachevars, transport>>

\* Client::get over such a socket
GetFlushing ==
    /\ CanCall
    /\ \E flush \in Flushes :
       LET id == Len(promises) + 1
           sent == SendFlushing(outbox, failed,
                                [cmd |-> "Get", keys |-> <<"k">>, id |-> id], flush)
       IN /\ outbox' = sent.outbox
          /\ client' = IF sent.res.ok
                       THEN [client EXCEPT !.get_senders = Append(@, id)]
                       ELSE client
          /\ promises' = Append(promises,
                                IF sent.res.ok THEN Pending("get")
                                ELSE Resolved(Pending("get"),
                                              Err(Unwrap(sent.res.err)), 0))
          /\ last' = [op |-> "get", ok |-> sent.res.ok, err |-> sent.res.err]
    /\ hist' = [hist EXCEPT !.calls = @ + 1]
    /\ UNCHANGED <<state, cstate, hs, err, transition, messages, wire, failed,
                   pc, events>>
    /\ UNCHANGED <<cachevars, transport>>

FlushNext ==
    \/ ServerHandshake
    \/ ServerAnswer
    \/ UpdateConnecting
    \/ UpdateDisconnected
    \/ UpdateConnected
    \/ ClientUpdateStep
    \/ ScoutLocationsFlushing
    \/ GetFlushing

FlushSpec == Init /\ [][FlushNext]_vars

----------------------------------------------------------------------------
(* The handshake with a server that batches: the message awaited comes in  *)
(* one frame with others, and further frames follow before the client has  *)
(* read it.                                                                *)

\* frames the server sends before the connection is made
MaxBatches == 4

\* what the server sends behind the Connected message
Tails ==
    { <<>>,
      <<PlainPrint("a")>>,
      <<PlainPrint("a"), PlainPrint("b")>>,
      <<ReceivedItems(0, <<NetworkItem(10, 4, 2)>>), PlainPrint("a")>>,
      <<InvalidPacket("cmd"), PlainPrint("b")>> }

BatchFrames ==
    { TextFrame(<<RoomInfo>>),
      TextFrame(<<DataPackage({"G", "H"})>>),
      TextFrame(<<RoomInfo, DataPackage({"G", "H"})>>),
      TextFrame(<<DataPackage({"G", "H"}), ConnectedGood, PlainPrint("a")>>) }
    \cup { TextFrame(<<ConnectedGood>> \o tail) : tail \in Tails }
    \cup { TextFrame(tail) : tail \in Tails \ {<<>>} }

ServerBatches ==
    /\ state = "Connecting"
    /\ hist.hframes < MaxBatches
    /\ Len(wire) < MaxWire
    /\ \E frame \in BatchFrames : wire' = Append(wire, frame)
    /\ hist' = [hist EXCEPT !.hframes = @ + 1]
    /\ UNCHANGED <<state, cstate, hs, err, transition, client, messages, failed,
                   outbox, pc, events, promises, last>>
    /\ UNCHANGED <<cachevars, transport>>

BatchNext ==
    \/ ServerBatches
    \/ UpdateConnecting
    \/ UpdateDisconnected
    \/ UpdateConnected
    \/ ClientUpdateStep

BatchSpec == Init /\ [][BatchNext]_vars

----------------------------------------------------------------------------
(* Vocabulary of the properties.                                           *)

\* a step of the loop of Client::update (an iteration, or its return)
IterationStep == pc = "updating" /\ hist' = hist /\ failed' = failed
\* a step that is a call of one of the requests
CallStep == hist'.calls = hist.calls + 1

\* what the iteration about to run reads
Reading == TryRecv(messages, wire, failed)
ReadsMessage == Reading.res.ok /\ Unwrap(Reading.res.val) # None
ReadsNothing == Reading.res.ok /\ Unwrap(Reading.res.val) = None
ReadsError == ~Reading.res.ok
MessageRead == Unwrap(Unwrap(Reading.res.val))
ErrorRead == Unwrap(Reading.res.err)

\* a RoomUpdate naming a player or a location the session does not hold
NamesUnknown(c, u) ==
    \/ /\ IsSome(u.players)
       /\ \E i \in DOMAIN Unwrap(u.players) :
             <<Unwrap(u.players)[i].team, Unwrap(u.players)[i].slot>>
                 \notin DOMAIN c.players
    \/ /\ IsSome(u.checked_locations)
       /\ \E i \in DOMAIN Unwrap(u.checked_locations) :
             Unwrap(u.checked_locations)[i] \notin GameLocations(c.game)

\* the messages the server has sent and the client has not been handed
\* yet, in the order sent: those buffered, then those of the text frames
\* waiting in the transport that are well-formed arrays of messages
RECURSIVE Flatten(_)
Flatten(w) ==
    IF w = <<>> THEN <<>>
    ELSE IF Head(w).kind = "Text"
            /\ \A i \in DOMAIN Head(w).elems : DecodeMessage(Head(w).elems[i]).ok
         THEN [i \in DOMAIN Head(w).elems |->
                  Unwrap(DecodeMessage(Head(w).elems[i]).val)]
                 \o Flatten(Tail(w))
         ELSE Flatten(Tail(w))
Stream == messages \o Flatten(wire)

\* a step that is Connection::update while Connecting
HandshakeStep ==
    state = "Connecting" /\ pc = "idle" /\ hist' = hist /\ failed' = failed

\* the errors the protocol lets a session survive
Recoverable(e) ==
    e = ErrBinaryMessage \/ e = ErrDeserialize \/ e.type = "InvalidPacket"

----------------------------------------------------------------------------
(* Properties.                                                             *)

\* C1: the state type only moves forward (Connecting to Connected or to
\* Disconnected, Connected to Disconnected), Disconnected is never left,
\* and every ConnectionStateTransition names two different types, the old
\* one earlier than the new, which are those of the step that reports it.
C1_StateOnlyAdvances ==
    [][ /\ Rank(state) <= Rank(state')
        /\ (state = "Disconnected" => state' = "Disconnected")
        /\ (state' # state => transition' = Some([old |-> state, new |-> state']))
        /\ (IsSome(transition') =>
               /\ Unwrap(transition').old # Unwrap(transition').new
               /\ Rank(Unwrap(transition').old) < Rank(Unwrap(transition').new))
      ]_vars

\* a connection that went through Connected and reported its end
C1_Witness ==
    /\ state = "Disconnected"
    /\ transition = Some([old |-> "Connected", new |-> "Disconnected"])
    /\ outbox # <<>>

\* C2: when a fatal error occurs while Connected, the update() that observes
\* it ends with the connection Disconnected: the call is never left inside
\* its loop, the error observed, with a transport from which nothing but
\* that error can be read any more.
C2_FatalErrorEndsUpdate ==
    ~( /\ pc = "updating"
       /\ state = "Connected"
       /\ FirstFatal(events) # 0
       /\ failed
       /\ messages = <<>>
       /\ wire = <<>> )

\* C3: Client::update() terminates: every iteration of its loop that does
\* not return consumes a buffered message or a frame of the transport.
C3_IterationConsumes ==
    [][ (IterationStep /\ pc' = "updating")
            => <<messages', wire'>> # <<messages, wire>> ]_vars

C6_ValidationBeforeSend ==
    [][ (CallStep /\
         \/ /\ last'.op \in {"mark_checked", "scout_locations"}
            /\ \E id \in Range(last'.locations) : id \notin GameLocations(client.game)
         \/ /\ last'.op = "update_hint"
            /\ \/ <<client.player_key[1], last'.slot>> \notin DOMAIN client.players
               \/ last'.location \notin
                     GameLocations(client.players[<<client.player_key[1],
                                                    last'.slot>>].game))
        => /\ ~last'.ok
           /\ IsSome(last'.err)
           /\ Unwrap(last'.err).type = "ArgumentError"
           /\ outbox' = outbox
           /\ client' = client
           /\ pc' = pc
      ]_vars

\* C7: a RoomUpdate naming an unknown player or an unknown location is
\* refused as a whole: no field of the session changes and the dispatch
\* adds exactly one Event::Error and no Event::Updated.
C7_RoomUpdateAllOrNothing ==
    [][ (IterationStep /\ ReadsMessage /\ MessageRead.cmd = "RoomUpdate"
           /\ NamesUnknown(client, MessageRead))
        => /\ client' = client
           /\ Len(events') = Len(events) + 1
           /\ SubSeq(events', 1, Len(events)) = events
           /\ Last(events').type = "Error"
           /\ pc' = "updating"
      ]_vars

\* a refused RoomUpdate that carried tags: the tags are those of RoomInfo
C7_Witness ==
    /\ state = "Connected"
    /\ last.op = "dispatch"
    /\ last.msg \in RoomUpdatesInvalid
    /\ events # <<>>
    /\ Last(events).type = "Error"
    /\ client.server_tags = RoomInfo.tags
    /\ client.hint_points = 0

\* C8: the dispatch of a RoomUpdate all of whose players and locations are
\* known, carrying checked_locations C, leaves every id of C checked and
\* emits Event::Updated whose CheckedLocations lists exactly the ids of C
\* that were stored as unchecked.
C8_CheckedLocationsReported ==
    [][ (IterationStep /\ ReadsMessage /\ MessageRead.cmd = "RoomUpdate"
           /\ ~NamesUnknown(client, MessageRead)
           /\ IsSome(MessageRead.checked_locations))
        => LET C == Range(Unwrap(MessageRead.checked_locations))
               fresh == {id \in C :
                            MapGet(client.local_locations_checked, id) = Some(FALSE)}
           IN /\ \A id \in C :
                    /\ id \in DOMAIN client'.local_locations_checked
                    /\ client'.local_locations_checked[id]
              /\ pc' = "updating"
              /\ Len(events') = Len(events) + 1
              /\ Last(events').type = "Updated"
              /\ \E i \in DOMAIN Last(events').fields :
                    /\ Last(events').fields[i].field = "CheckedLocations"
                    /\ Range(Last(events').fields[i].locations) = fresh
                    /\ Len(Last(events').fields[i].locations) = Cardinality(fresh)
      ]_vars

\* C9: while the session lives, a location stored as checked stays checked.
C9_CheckedIsMonotone ==
    [][ (state = "Connected" /\ state' = "Connected") =>
          \A id \in DOMAIN client.local_locations_checked :
              client.local_locations_checked[id]
                  => /\ id \in DOMAIN client'.local_locations_checked
                     /\ client'.local_locations_checked[id]
      ]_vars

\* the server echoes a check the client had marked: nothing is new
C9_Witness ==
    /\ state = "Connected"
    /\ last.op = "dispatch"
    /\ last.msg.cmd = "RoomUpdate"
    /\ last.msg.checked_locations = Some(<<1>>)
    /\ events # <<>>
    /\ Last(events) = [type |-> "Updated",
                       fields |-> <<[field |-> "CheckedLocations",
                                     locations |-> <<>>]>>]
    /\ client.local_locations_checked[1]
    /\ client.hint_points = client.hint_points_per_check

C11_ServerOrderPreserved ==
    [][ /\ (IterationStep /\ ReadsMessage)
              => /\ MessageRead = Head(Stream)
                 /\ Stream' = Tail(Stream)
                 /\ SubSeq(events', 1, Len(events)) = events
                 /\ MessageRead.cmd = "Print"
                       => events' = Append(events, EventPrint(MessageRead.text))
        /\ (IterationStep /\ ~ReadsMessage /\ state' = "Connected")
              => Stream' = Stream
        /\ (HandshakeStep /\ state' # "Disconnected")
              => \/ Stream' = Stream
                 \/ Stream # <<>> /\ Stream' = Tail(Stream)
      ]_vars

\* the first message of a frame of two is dispatched, the second is still
\* buffered and a later frame waits in the transport
C11_Witness ==
    /\ state = "Connected"
    /\ pc = "updating"
    /\ events = <<EventPrint("hi")>>
    /\ messages = <<InvalidPacket("cmd")>>
    /\ wire # <<>>

\* the elements of the text frames of w that decode, in the order sent
RECURSIVE Decodable(_)
Decodable(w) ==
    IF w = <<>> THEN <<>>
    ELSE IF Head(w).kind = "Text"
         THEN LET good == SelectSeq(Head(w).elems,
                                    LAMBDA m : DecodeMessage(m).ok)
              IN [i \in DOMAIN good |-> Unwrap(DecodeMessage(good[i]).val)]
                     \o Decodable(Tail(w))
         ELSE Decodable(Tail(w))

\* C12: a decode error is local to one message: the read that reports the
\* element of a frame that does not decode loses no other element of that
\* frame, they are still to be delivered, in their order.
C12_DecodeErrorIsLocal ==
    [][ (IterationStep /\ ReadsError /\ ErrorRead = ErrDeserialize)
            => messages' \o Decodable(wire') = messages \o Decodable(wire)
      ]_vars

\* the kinds of the client messages of an outbox, in the order sent
Cmds(out) == [i \in DOMAIN out |-> out[i].cmd]

\* C13: while Connecting the client sends GetDataPackage once, in the
\* update that reads RoomInfo, then Connect once, in the update that reads
\* DataPackage, and nothing else: the session starts with exactly these
\* two messages sent.
C13_HandshakeOrder ==
    [][ state = "Connecting" =>
          /\ \/ outbox' = outbox
             \/ /\ outbox = <<>>
                /\ Cmds(outbox') = <<"GetDataPackage">>
                /\ ReadsMessage /\ MessageRead.cmd = "RoomInfo"
                /\ hs'.room_info = Some(MessageRead)
             \/ /\ Cmds(outbox) = <<"GetDataPackage">>
                /\ Cmds(outbox') = <<"GetDataPackage", "Connect">>
                /\ SubSeq(outbox', 1, 1) = outbox
                /\ ReadsMessage /\ MessageRead.cmd = "DataPackage"
                /\ hs'.data_package = Some(MessageRead)
          /\ state' = "Connected"
                => Cmds(outbox') = <<"GetDataPackage", "Connect">>
      ]_vars

\* both requests are sent and the answer to Connect is awaited
C13_Witness ==
    /\ state = "Connecting"
    /\ cstate = "ApAwaitingConnected"
    /\ Len(outbox) = 2
    /\ outbox[1].cmd = "GetDataPackage"
    /\ outbox[2].cmd = "Connect"
    /\ IsSome(hs.room_info)
    /\ IsSome(hs.data_package)

\* the kinds of message a step of the handshake awaits, and the kind it
\* names as expected
Awaited(cs) ==
    CASE cs = "ApAwaitingRoomInfo" -> {"RoomInfo"}
      [] cs = "ApAwaitingDataPackage" -> {"DataPackage"}
      [] cs = "ApAwaitingConnected" -> {"Connected", "ConnectionRefused"}
      [] OTHER -> {}
ExpectedName(cs) ==
    CASE cs = "ApAwaitingRoomInfo" -> "RoomInfo"
      [] cs = "ApAwaitingDataPackage" -> "DataPackage"
      [] OTHER -> "Connected"

\* C14: in each step of the handshake a message of a kind other than the
\* awaited one ends the connection with UnexpectedResponse naming the kind
\* received as actual and the kind that step awaits as expected.
C14_UnexpectedResponse ==
    [][ (HandshakeStep /\ cstate # "SocketConnecting" /\ ReadsMessage
           /\ MessageRead.cmd \notin Awaited(cstate))
        => /\ state' = "Disconnected"
           /\ err' = Some([type |-> "ProtocolError", kind |-> "UnexpectedResponse",
                           actual |-> MessageRead.cmd,
                           expected |-> ExpectedName(cstate)])
      ]_vars

\* C15: ConnectionRefused in answer to Connect ends the connection with
\* Error::ConnectionRefused holding one ConnectionError per entry, in
\* order, by the closed vocabulary.
C15_ConnectionRefused ==
    [][ (HandshakeStep /\ cstate = "ApAwaitingConnected" /\ ReadsMessage
           /\ MessageRead.cmd = "ConnectionRefused")
        => /\ state' = "Disconnected"
           /\ IsSome(err')
           /\ Unwrap(err').type = "ConnectionRefused"
           /\ Unwrap(err').errors =
                  [i \in DOMAIN MessageRead.errors |->
                      IF MessageRead.errors[i] \in
                             {"InvalidSlot", "InvalidGame", "InvalidVersion",
                              "InvalidPassword", "InvalidItemsHandling"}
                      THEN [kind |-> MessageRead.errors[i]]
                      ELSE [kind |-> "Unknown", value |-> MessageRead.errors[i]]]
      ]_vars

\* the number of Event::Connected among events
ConnectedCount(evs) == Cardinality({i \in DOMAIN evs : evs[i].type = "Connected"})

C17_StoreLoadRoundTrip ==
    ( /\ cache.fresh
      /\ cache.store.pc = "done"
      /\ cache.store.calls = 1
      /\ cache.store.packages = [game \in {"G"} |-> GameData("x", "new")] )
    => /\ IsFile(files, <<"G", "x.json">>)
       /\ ( /\ cache.load.pc = "done"
            /\ cache.load.since = 1
            /\ cache.load.request = [game \in {"G"} |-> "x"] )
          => cache.load.result = cache.store.packages

\* the step of a load that reads the file of game
LoadReads(game) ==
    /\ cache.load.pc = "reading"
    /\ game \in cache.load.todo
    /\ cache'.load.todo = cache.load.todo \ {game}

\* the file asked for exists, is a whole JSON text and carries the checksum
\* asked for
CacheHit(game) ==
    LET expected == cache.load.request[game]
        path == <<game, expected \o ".json">>
    IN /\ path \in DOMAIN files
       /\ files[path].type = "File"
       /\ Len(files[path].content) = 4
       /\ files[path].content[1] = "{"
       /\ files[path].content[4] = "}"
       /\ files[path].content[2] = expected

\* C18: a load never fails and is checked by checksum: each game asked
\* for enters the result if and only if its file exists, deserializes and
\* carries the checksum asked for, with the data of that file; any other
\* game is left out and the load goes on.
C18_LoadIsTotalAndValidated ==
    [][ /\ \A game \in {"G", "H"} :
              LoadReads(game) =>
                 LET path == <<game, cache.load.request[game] \o ".json">> IN
                 /\ cache'.load.pc = "reading"
                 /\ cache'.load.result =
                        IF CacheHit(game)
                        THEN [g \in DOMAIN cache.load.result \cup {game} |->
                                 IF g = game
                                 THEN [checksum |-> files[path].content[2],
                                       body |-> files[path].content[3]]
                                 ELSE cache.load.result[g]]
                        ELSE cache.load.result
        /\ DOMAIN cache'.load.result \subseteq DOMAIN cache'.load.request
        /\ (cache.load.pc = "reading" /\ cache.load.todo = {})
              => (cache'.load.pc = "reading" \/ cache'.load.pc = "done")
      ]_vars

\* a load of G and H under checksum x returned G alone: the file of H is
\* there and holds a package of another checksum
C18_Witness ==
    /\ cache.load.pc = "done"
    /\ cache.load.request = [game \in {"G", "H"} |-> "x"]
    /\ cache.load.result = [game \in {"G"} |-> GameData("x", "old")]
    /\ IsFile(files, <<"H", "x.json">>)

\* C19: a store writes its content to a temporary file beside the target
\* and renames it: the step that opens the file to write makes a file in
\* the directory of the target that is not the target, and the target
\* never changes to anything but the whole new content.
C19_AtomicWrite ==
    [][ LET store == cache.store
            data == store.packages[store.game]
            path == <<store.game, data.checksum \o ".json">>
        IN /\ (store.pc = "open" /\ cache'.store.pc # "open")
                 => /\ cache'.store.pc = "fill"
                    /\ \E tmp \in DOMAIN files' :
                          /\ Len(tmp) = 2
                          /\ tmp[1] = store.game
                          /\ tmp # path
                          /\ files'[tmp].type = "File"
                          /\ tmp \notin DOMAIN files
           /\ \A p \in DOMAIN files' :
                 (Len(p) = 2 /\ (p \notin DOMAIN files \/ files'[p] # files[p])
                    /\ p[2] \in {"x.json", "y.json"})
                 => files'[p] = [type |-> "File",
                                 content |-> <<"{", data.checksum, data.body, "}">>]
      ]_vars

\* the Bounced elements of the text frames of w, as the server sent them
RECURSIVE BouncedSent(_)
BouncedSent(w) ==
    IF w = <<>> THEN {}
    ELSE {Head(w).elems[i] : i \in {j \in DOMAIN Head(w).elems :
                                        Head(w).elems[j].cmd = "Bounced"}}
             \cup BouncedSent(Tail(w))

\* whether a set of tags, as the server sent it, names the death link
TaggedDeathLink(tags) == tags # <<>> /\ "DeathLink" \in tags[1]

\* C20: a Bounced message yields Event::DeathLink if and only if its tags
\* contain "DeathLink", and otherwise Event::Bounce with the data as the
\* server sent it; every Event::DeathLink carries tags that contain
\* "DeathLink", and the Bounced the decoder buffers is a death link exactly
\* when the server tagged it one.
C20_DeathLinkIffTagged ==
    [][ /\ (IterationStep /\ ReadsMessage /\ MessageRead.cmd = "Bounced")
              => /\ pc' # "panicked"
                 /\ events' = Append(events,
                        IF TaggedDeathLink(MessageRead.tags)
                        THEN [type |-> "DeathLink", tags |-> MessageRead.tags[1],
                              source |-> MessageRead.data.source]
                        ELSE [type |-> "Bounce", tags |-> MessageRead.tags,
                              data |-> MessageRead.data.value])
        /\ \A i \in DOMAIN events' :
              events'[i].type = "DeathLink" => "DeathLink" \in events'[i].tags
        /\ \A i \in DOMAIN messages' :
              messages'[i].cmd = "Bounced"
                 => /\ (messages'[i].data.kind = "DeathLink")
                          = TaggedDeathLink(messages'[i].tags)
                    /\ \E sent \in BouncedSent(wire) \cup
                                     {m \in Range(messages) : m.cmd = "Bounced"} :
                          /\ sent.tags = messages'[i].tags
                          /\ \/ sent = messages'[i]
                             \/ messages'[i].data.kind = "Generic"
                                   /\ messages'[i].data.value = sent.data
                             \/ messages'[i].data.kind = "DeathLink"
                                   /\ sent.data = <<[json |-> "DeathLink",
                                          source |-> messages'[i].data.source]>>
      ]_vars

\* a death link and a plain bounce have both been delivered, the bounce
\* without tags and with the number the server sent
C20_Witness ==
    /\ \E i \in DOMAIN events :
          events[i] = [type |-> "DeathLink", tags |-> {"DeathLink", "T"},
                       source |-> "n2"]
    /\ \E i \in DOMAIN events :
          events[i] = [type |-> "Bounce", tags |-> <<>>,
                       data |-> <<[json |-> "Number", source |-> ""]>>]

\* the bitset the protocol assigns to an ItemHandling: 0 for None, and for
\* OtherWorlds 1, plus 2 with own_world, plus 4 with starting_inventory
ProtocolBits(h) ==
    IF h.kind = "None" THEN 0
    ELSE 1 + (IF h.own_world THEN 2 ELSE 0)
           + (IF h.starting_inventory THEN 4 ELSE 0)

\* C21: the items_handling sent in Connect and in ConnectUpdate is the
\* protocol bitset of the ItemHandling the caller gave: 0 for None and,
\* for OtherWorlds, bit 0x1 always, bit 0x2 iff own_world, bit 0x4 iff
\* starting_inventory (1, 3, 5, 7).
C21_ItemsHandlingBits ==
    /\ last.op = "connect"
         => Last(outbox).items_handling = ProtocolBits(last.item_handling[1])
    /\ (last.op = "update_connection" /\ last.item_handling # <<>>)
         => Last(outbox).items_handling
               = <<ProtocolBits(last.item_handling[1])>>

\* the errors the connection holds or has reported in the update under way
ErrorsReported ==
    (IF err = <<>> THEN {} ELSE {err[1]})
        \cup {events[i].error : i \in {j \in DOMAIN events : events[j].type = "Error"}}

\* the kinds of error the error table names, and those it calls fatal
InErrorTable(e) ==
    e.type \in {"WebSocket", "Async", "Serialize", "ConnectionRefused",
                "InvalidPacket", "ProtocolError"}
FatalInTable(e) ==
    \/ e.type \in {"WebSocket", "Async", "Serialize", "ConnectionRefused"}
    \/ e.type = "ProtocolError" /\ e.kind = "UnexpectedResponse"

\* C22: is_fatal agrees with the error table on every error the
\* connection reports: true for transport errors, Serialize,
\* ConnectionRefused and ProtocolError::UnexpectedResponse, false for
\* InvalidPacket and the other kinds of ProtocolError.
C22_IsFatalTable ==
    \A e \in ErrorsReported : InErrorTable(e) => (IsFatal(e) = FatalInTable(e))

\* the message about to be dispatched answers a request that was not made
AnswersNoRequest ==
    /\ IterationStep
    /\ ReadsMessage
    /\ \/ MessageRead.cmd = "LocationInfo" /\ client.location_scout_senders = <<>>
       \/ MessageRead.cmd = "Retrieved" /\ client.get_senders = <<>>

\* C23: a LocationInfo (Retrieved) dispatched while the queue of scouts
\* (gets) is empty adds exactly one Event::Error(ResponseWithoutRequest),
\* resolves no completion and leaves the queues and the session as they
\* were; the update goes on.
C23_ResponseWithoutRequest ==
    [][ AnswersNoRequest
          => /\ Len(events') = Len(events) + 1
             /\ SubSeq(events', 1, Len(events)) = events
             /\ events'[Len(events')].type = "Error"
             /\ events'[Len(events')].error.type = "ProtocolError"
             /\ events'[Len(events')].error.kind = "ResponseWithoutRequest"
             /\ promises' = promises
             /\ client' = client
             /\ pc' = "updating"
      ]_vars

\* the queue of senders the message about to be dispatched answers from
QueueOf(c, m) ==
    IF m.cmd = "LocationInfo" THEN c.location_scout_senders ELSE c.get_senders

\* the message about to be dispatched answers a request whose receiver
\* was dropped
AnswersDropped ==
    /\ IterationStep
    /\ ReadsMessage
    /\ MessageRead.cmd \in {"LocationInfo", "Retrieved"}
    /\ QueueOf(client, MessageRead) # <<>>
    /\ promises[QueueOf(client, MessageRead)[1]].status = "dropped"

\* C24: the response to a request whose receiver was dropped is discarded
\* without event or error and consumes the queue entry of that request,
\* so that, while the server answers in order, every later response
\* resolves the completion of its own request.
C24_DroppedReceiver ==
    [][ /\ AnswersDropped
             => /\ events' = events
                /\ pc' = "updating"
                /\ promises' = promises
                /\ QueueOf(client', MessageRead)
                      = SubSeq(QueueOf(client, MessageRead), 2,
                               Len(QueueOf(client, MessageRead)))
        /\ hist'.orderly
             => \A i \in DOMAIN promises' :
                   (promises'[i].status = "resolved" /\ promises'[i].by # 0)
                       => promises'[i].by = i
      ]_vars

\* the players map of a session is keyed by the team and slot of its
\* players and holds the player of the session
WellKeyed(c) ==
    /\ c.player_key \in DOMAIN c.players
    /\ \A k \in DOMAIN c.players :
          c.players[k].team = k[1] /\ c.players[k].slot = k[2]

\* C25: in every Connected state the players map is well keyed, and the
\* dispatch of a RoomUpdate keeps the keys of the map and changes no field
\* of a player other than its alias.
C25_PlayersWellKeyed ==
    [][ /\ state' = "Connected" => WellKeyed(client')
        /\ (IterationStep /\ ReadsMessage /\ MessageRead.cmd = "RoomUpdate")
              => /\ DOMAIN client'.players = DOMAIN client.players
                 /\ \A k \in DOMAIN client.players :
                       [client'.players[k] EXCEPT !.alias = client.players[k].alias]
                           = client.players[k]
      ]_vars

\* C26: in every Connected state the game of every player of the players
\* map is a game of the data package or the reserved Archipelago game, so
\* a Connected message with a player of an unknown game sets up no session.
C26_PlayersGamesKnown ==
    state = "Connected" =>
        \A k \in DOMAIN client.players :
            client.players[k].game \in client.games \cup {ArchipelagoName}

\* every member of every group of a session is a player of the team
MembersKeyed(c, team) ==
    \A g \in c.groups : \A m \in Range(g.group_members) :
        <<team, m>> \in DOMAIN c.players

\* C27: in every session, for every group and every team up to teams each
\* member slot of the group is a key (team, slot) of the players map, and
\* so groups(team) and teammate_groups() resolve every member of every
\* group without a panic.
C27_GroupMembersKeyed ==
    [][ /\ state' = "Connected"
              => \A team \in 0..client'.teams : MembersKeyed(client', team)
        /\ last'.op \in {"groups", "teammate_groups"}
              => /\ pc' # "panicked"
                 /\ last'.team <= client.teams
                       => /\ last'.groups # None
                          /\ Cardinality(Unwrap(last'.groups)) = Cardinality(client.groups)
      ]_vars

\* C28: the keys of local_locations_checked are the location ids of the
\* game of the session from the construction on and never change, so
\* is_local_location_checked answers, and a RoomUpdate's checked_locations
\* are applied, for every location id of that game without a panic.
C28_LocalLocationsKeys ==
    [][ /\ state' = "Connected"
              => DOMAIN client'.local_locations_checked = GameLocations(client'.game)
        /\ (state = "Connected" /\ state' = "Connected")
              => DOMAIN client'.local_locations_checked
                     = DOMAIN client.local_locations_checked
        /\ (last'.op = "is_local_location_checked"
                /\ last'.id \in GameLocations(client.game))
              => pc' # "panicked" /\ last'.checked # None
        /\ (last'.op = "update_room"
                /\ Range(Unwrap(last'.msg.checked_locations))
                       \subseteq GameLocations(client.game))
              => /\ pc' # "panicked"
                 /\ last'.res.ok
                 /\ \A id \in Range(Unwrap(last'.msg.checked_locations)) :
                       client'.local_locations_checked[id]
      ]_vars

\* the last step was a TLS handshake that failed
TlsFailed == last.op \in {"handshake", "tls"} /\ last.tls = Some("Failure")

\* C29: when the TLS handshake fails the transport opens a fresh TCP
\* connection to the same host and port and goes on with the WebSocket
\* handshake on the plain stream instead of failing the connect; a TCP
\* connect error or a failure of the WebSocket handshake ends the connect
\* with that error.
C29_TlsFallsBackToPlain ==
    [][ /\ (TlsFailed' /\ last'.tcp # Some("Err"))
              => /\ transport'.conns = Append(transport.conns, transport.conns[1])
                 /\ transport'.stream = Some("Plain")
                 /\ transport'.stage = "WsConnecting"
                 /\ transport'.error = None
        /\ last'.tcp = Some("Err")
              => transport'.stage = "Failed" /\ transport'.error = Some(ErrIo)
        /\ last'.ws = Some("Failure")
              => transport'.stage = "Failed" /\ transport'.error = Some(ErrHandshake)
      ]_vars

\* the message about to be dispatched is a LocationInfo that answers a
\* scout whose completion is pending
AnswersScout ==
    /\ IterationStep
    /\ ReadsMessage
    /\ MessageRead.cmd = "LocationInfo"
    /\ client.location_scout_senders # <<>>
    /\ promises[client.location_scout_senders[1]].status = "pending"
\* the entry names a teammate, an item of that teammate's game and a
\* location of the game of the session
Resolves(c, network) ==
    /\ <<c.player_key[1], network.player>> \in DOMAIN c.players
    /\ network.item
          \in GameItems(c.players[<<c.player_key[1], network.player>>].game)
    /\ network.location \in GameLocations(c.game) \cup {-1, -2}
\* the LocatedItem of an entry: sent by the player of the session, received
\* by the teammate the entry names
LocatedBy(c, network) ==
    [item |-> network.item, location |-> network.location,
     sender |-> c.player_key[2], receiver |-> network.player]

\* C30: every entry of a LocationInfo becomes a LocatedItem whose sender is
\* the current player and whose receiver is the teammate of the entry's
\* slot, with the location looked up in the game of the session and the
\* item in the receiver's game: the scout resolves with these items when
\* each entry names an item of its receiver's game, and with an error
\* otherwise.
C30_ScoutedItemsResolve ==
    [][ AnswersScout
          => /\ pc' # "panicked"
             /\ promises'[client.location_scout_senders[1]].status = "resolved"
             /\ LET res == Unwrap(promises'[client.location_scout_senders[1]].res)
                    locations == MessageRead.locations
                IN IF \A i \in DOMAIN locations : Resolves(client, locations[i])
                   THEN res = Ok([i \in DOMAIN locations |->
                                     LocatedBy(client, locations[i])])
                   ELSE ~res.ok
      ]_vars

\* the message about to be dispatched is a ReceivedItems
ReceivesItems ==
    IterationStep /\ ReadsMessage /\ MessageRead.cmd = "ReceivedItems"
\* the item was sent by a teammate of a known game, from a location of that
\* game or a well-known one, and is an item of the game of the session
Receivable(c, network) ==
    /\ <<c.player_key[1], network.player>> \in DOMAIN c.players
    /\ c.players[<<c.player_key[1], network.player>>].game
          \in c.games \cup {"Archipelago"}
    /\ network.item \in GameItems(c.game)
    /\ network.location
          \in GameLocations(c.players[<<c.player_key[1], network.player>>].game)
              \cup {-1, -2}
\* the LocatedItem of a received item: sent by the player the item names,
\* received by the player of the session
ReceivedBy(c, network) ==
    [item |-> network.item, location |-> network.location,
     sender |-> network.player, receiver |-> c.player_key[2]]

\* C31: the dispatch of a ReceivedItems message adds exactly one event: an
\* Event::ReceivedItems with the index of the message and all of its items
\* in the order of the message, each received by the current player, or,
\* when an item does not resolve, an Event::Error and nothing else.
C31_ReceivedItemsOneEvent ==
    [][ ReceivesItems
          => /\ pc' = "updating"
             /\ Len(events') = Len(events) + 1
             /\ SubSeq(events', 1, Len(events)) = events
             /\ LET items == MessageRead.items
                    event == events'[Len(events')]
                IN IF \A i \in DOMAIN items : Receivable(client, items[i])
                   THEN event = [type |-> "ReceivedItems",
                                 index |-> MessageRead.index,
                                 items |-> [i \in DOMAIN items |->
                                               ReceivedBy(client, items[i])]]
                   ELSE event.type = "Error"
      ]_vars

C31_Witness ==
    /\ last.op = "dispatch"
    /\ last.msg.cmd = "ReceivedItems"
    /\ Len(last.msg.items) = 2
    /\ last.msg.index = 1
    /\ events # <<>>
    /\ events[Len(events)].type = "ReceivedItems"
    /\ Len(events[Len(events)].items) = 2

\* every item of the message comes from a well-known location, is an item
\* of the game of the session and was sent by a teammate or by the server
FromWellKnown(c, m) ==
    \A i \in DOMAIN m.items :
        /\ m.items[i].location \in {-1, -2}
        /\ m.items[i].item \in GameItems(c.game)
        /\ \/ m.items[i].player = 0
           \/ <<c.player_key[1], m.items[i].player>> \in DOMAIN c.players

\* C32: an item whose location id is -1 or -2 resolves to the well-known
\* Archipelago location and never to a MissingLocation error, whatever the
\* game of its sender; a ReceivedItems message of such items, those sent by
\* the server as slot 0 included, yields an Event::ReceivedItems.
C32_WellKnownLocations ==
    [][ (ReceivesItems /\ FromWellKnown(client, MessageRead))
          => /\ pc' = "updating"
             /\ Len(events') = Len(events) + 1
             /\ events'[Len(events')]
                   = [type |-> "ReceivedItems", index |-> MessageRead.index,
                      items |-> [i \in DOMAIN MessageRead.items |->
                                    ReceivedBy(client, MessageRead.items[i])]]
      ]_vars

\* the fields of an Event::Updated of one kind
FieldsOf(event, kind) == {f \in Range(event.fields) : f.field = kind}
\* the players of the session that a list of network players renames, as
\* the session holds them, in the order of the list
RECURSIVE Renamed(_, _)
Renamed(c, new) ==
    IF new = <<>> THEN <<>>
    ELSE LET old == c.players[<<Head(new).team, Head(new).slot>>]
         IN (IF old.alias # Head(new).alias THEN <<old>> ELSE <<>>)
                \o Renamed(c, Tail(new))
\* what an option of the update makes of a field of the event
Carries(option, field) == IF option = None THEN {} ELSE {field}

\* C33: the dispatch of a RoomUpdate whose players and locations are known
\* adds exactly one Event::Updated, and its fields hold the values of the
\* session from before the update: the previous server tags, permissions
\* and hint points, the points per hint and the hint points per check
\* computed from the previous hint cost, and the replaced records of the
\* players whose alias differs.
C33_UpdatedCarriesOldValues ==
    [][ (IterationStep /\ ReadsMessage /\ MessageRead.cmd = "RoomUpdate"
           /\ ~NamesUnknown(client, MessageRead))
        => /\ pc' = "updating"
           /\ Len(events') = Len(events) + 1
           /\ SubSeq(events', 1, Len(events)) = events
           /\ events'[Len(events')].type = "Updated"
           /\ FieldsOf(events'[Len(events')], "ServerTags")
                 = Carries(MessageRead.tags,
                           [field |-> "ServerTags", tags |-> client.server_tags])
           /\ FieldsOf(events'[Len(events')], "Permissions")
                 = Carries(MessageRead.permissions,
                           [field |-> "Permissions",
                            permissions |-> client.permissions])
           /\ FieldsOf(events'[Len(events')], "HintPoints")
                 = Carries(MessageRead.hint_points,
                           [field |-> "HintPoints",
                            hint_points |-> client.hint_points])
           /\ FieldsOf(events'[Len(events')], "HintEconomy")
                 = Carries(MessageRead.hint_cost \o MessageRead.location_check_points,
                           [field |-> "HintEconomy",
                            points_per_hint |->
                                (Cardinality(DOMAIN client.local_locations_checked)
                                    * client.hint_cost_percentage) \div 100,
                            hint_points_per_check |-> client.hint_points_per_check])
           /\ FieldsOf(events'[Len(events')], "Players")
                 = IF MessageRead.players = None THEN {}
                   ELSE {[field |-> "Players",
                          players |-> Renamed(client, Unwrap(MessageRead.players))]}
      ]_vars

\* the WebSocket is established and the handshake of the protocol runs
Greeted == state = "Connecting" /\ cstate # "SocketConnecting"

\* C34: once the transport has connected, with a server that sends RoomInfo,
\* answers GetDataPackage with a DataPackage and answers Connect with a
\* Connected the session accepts, repeated calls of update() eventually
\* bring the connection to Connected.
C34_HandshakeProgress == Greeted ~> (state = "Connected")

C34_Witness ==
    /\ state = "Connected"
    /\ hist.hframes = 3
    /\ Cmds(outbox) = <<"GetDataPackage", "Connect">>
    /\ transition = Some([old |-> "Connecting", new |-> "Connected"])
    /\ wire = <<>>
    /\ client.game = ThisGame


\* C35: once the main side is dropped the worker leaves its run loop: it
\* begins at most one iteration for each message still waiting in the
\* outgoing channel and one more, whether the server is silent, keeps
\* sending frames, or the socket returns errors.
C35_WorkerLeavesRunLoop ==
    /\ (~transport.alive) ~> (transport.wpc = "done")
    /\ [](transport.rounds <= transport.pending + 1)

C35_Witness ==
    /\ ~transport.alive
    /\ transport.wpc = "done"
    /\ transport.pending = 2
    /\ transport.rounds = 3
    /\ transport.written = <<1, 2, 3>>

\* C35 as stated: the worker leaves within one iteration of the loop after
\* the drop.
C35_LeavesWithinOneIteration ==
    /\ (~transport.alive) ~> (transport.wpc = "done")
    /\ [](transport.rounds <= 1)

\* the frames among the results waiting for the main thread
RECURSIVE FramesOf(_)
FramesOf(results) ==
    IF results = <<>> THEN <<>>
    ELSE (IF Head(results).ok THEN <<Head(results).frame>> ELSE <<>>)
            \o FramesOf(Tail(results))

\* C36: the messages written to the server are, in order, those the main
\* thread sent; while the socket is healthy none is left out: what is
\* written followed by what waits in the channel is what was sent.  The
\* frames the main thread received, those waiting in the channel and those
\* not yet read are, in order, the frames the server sent.
C36_WorkerKeepsOrder ==
    /\ \A i \in DOMAIN transport.written :
          /\ transport.written[i] \in 1..Len(transport.sent)
          /\ \A j \in DOMAIN transport.written :
                i < j => transport.written[i] < transport.written[j]
    /\ transport.sock = "healthy"
          => transport.written \o transport.toWorker
                = [i \in 1..Len(transport.sent) |-> i]
    /\ transport.alive
          => transport.got \o FramesOf(transport.toMain) \o transport.inbox
                = [i \in 1..transport.served |-> i]

C36_Witness ==
    /\ transport.written = <<1, 2>>
    /\ transport.toWorker = <<3>>
    /\ transport.got = <<1, 2>>
    /\ transport.alive


\* C37: source(s) sets the source of the options to s and leaves the cause
\* and every other option as it was; cause(c) sets the cause to c and
\* leaves the source and every other option as it was.
C37_FieldWiseBuilder ==
    [][ /\ last'.op = "source"
           => last'.options = [last.options EXCEPT !.source = Some(last'.arg)]
        /\ last'.op = "cause"
           => last'.options = [last.options EXCEPT !.cause = Some(last'.arg)]
      ]_vars


\* a call of scout_locations or get
RequestCall == CallStep /\ last'.op \in {"scout_locations", "get"}
\* the promises the session holds in its two queues
Queued(c) == Len(c.location_scout_senders) + Len(c.get_senders)

\* C38: a call of scout_locations or get puts its promise in the queue if
\* and only if it hands its request to the transport, and a response is
\* never dispatched while the promise of its request is missing from the
\* queue: the promise at the head of the queue is the one of the request
\* the response answers.
C38_PromiseQueuedIffSent ==
    [][ /\ RequestCall
           => (Len(outbox') = Len(outbox) + 1) = (Queued(client') = Queued(client) + 1)
        /\ (IterationStep /\ ReadsMessage
              /\ MessageRead.cmd \in {"LocationInfo", "Retrieved"})
           => /\ QueueOf(client, MessageRead) # <<>>
              /\ QueueOf(client, MessageRead)[1] = MessageRead.re
      ]_vars


\* C39: the dispatch of a message of the handshake (RoomInfo, DataPackage,
\* Connected, ConnectionRefused) that arrives in the Connected state does
\* not panic: the call of update() goes on to the next message.
C39_LateHandshakeMessageHandled ==
    [][ (IterationStep /\ ReadsMessage
           /\ MessageRead.cmd \in {"RoomInfo", "DataPackage", "Connected",
                                   "ConnectionRefused"})
        => /\ pc' = "updating"
           /\ Len(events') \in {Len(events), Len(events) + 1}
      ]_vars


\* the messages of the frames waiting in the transport, in order
RECURSIVE Unread(_)
Unread(w) ==
    IF w = <<>> THEN <<>>
    ELSE (IF Head(w).kind = "Text" /\ Decode(Head(w).elems).ok
          THEN Unwrap(Decode(Head(w).elems).val) ELSE <<>>) \o Unread(Tail(w))
\* every message the server sent that the client has not taken yet
Undelivered == messages \o Unread(wire)
\* the same after the step
UndeliveredNext == messages' \o Unread(wire')

\* C40: a step of the handshake takes at most the one message it awaits
\* and keeps every other message the server sent, those of the same frame
\* and those of later frames: the step that makes the connection takes the
\* Connected message and nothing else.  Each iteration of update() in the
\* Connected state then takes the oldest of the messages kept, and for a
\* Print, ReceivedItems or InvalidPacket adds its one event, so that they
\* are delivered in the order sent.
C40_NothingLostAtTheBoundary ==
    [][ /\ (state = "Connecting" /\ state' = "Connecting" /\ hist' = hist)
           => \/ UndeliveredNext = Undelivered
              \/ /\ Undelivered # <<>>
                 /\ UndeliveredNext = Tail(Undelivered)
        /\ (state = "Connecting" /\ state' = "Connected")
           => /\ Undelivered # <<>>
              /\ Head(Undelivered).cmd = "Connected"
              /\ UndeliveredNext = Tail(Undelivered)
        /\ (state = "Connected" /\ state' = "Connected" /\ pc = "idle")
           => UndeliveredNext = Undelivered
        /\ (state = "Connected" /\ pc = "updating" /\ Undelivered # <<>>)
           => /\ UndeliveredNext = Tail(Undelivered)
              /\ Head(Undelivered).cmd \in {"Print", "ReceivedItems", "InvalidPacket"}
                    => Len(events') = Len(events) + 1
              /\ Head(Undelivered).cmd = "Print"
                    => events' = Append(events, EventPrint(Head(Undelivered).text))
      ]_vars

C40_Witness ==
    /\ state = "Connected"
    /\ pc = "updating"
    /\ events = <<EventPrint("a"), EventPrint("b")>>
    /\ hist.hframes = 3
    /\ Undelivered = <<>>


=============================================================================
